---- MODULE Spec2Model ----
(***************************************************************************)
(* A model of the assessment / response pipeline of the AI healthcare      *)
(* assistant server: the per-user action limiter (userActionLimiter of     *)
(* the auth middleware), the AI service (services/aiService.js), the chat  *)
(* session document (models/Chat.js) and the request handlers that drive   *)
(* them (POST /check, POST /:sessionId/message and PUT /:sessionId).       *)
(*                                                                         *)
(* Representation of JavaScript strings.  A string on which the code runs  *)
(* a string operation (toLowerCase, includes, indexOf, slice, JSON.parse)  *)
(* is a sequence of characters, each character a one-letter TLA+ string.   *)
(* The text of one well-formed JSON object is the three symbols            *)
(* "{", b, "}" where b names an entry of JsonBody: b stands for the run of *)
(* characters between the outermost braces.  Labels that the code only     *)
(* copies or compares for equality (enum values, titles) are TLA+ strings. *)
(***************************************************************************)
EXTENDS Integers, Sequences, FiniteSets, TLC

(***************************************************************************)
(* String primitives of the JavaScript runtime.                            *)
(***************************************************************************)
upperCaseLetters == <<"A","B","C","D","E","F","G","H","I","J","K","L","M","N","O","P","Q","R","S","T","U","V","W","X","Y","Z">>

lowerCaseLetters == <<"a","b","c","d","e","f","g","h","i","j","k","l","m","n","o","p","q","r","s","t","u","v","w","x","y","z">>

\* String.prototype.toLowerCase, one character
toLowerCaseChar(c) ==
  IF \E i \in 1..26 : upperCaseLetters[i] = c
    THEN lowerCaseLetters[CHOOSE i \in 1..26 : upperCaseLetters[i] = c]
    ELSE c

\* String.prototype.toLowerCase
toLowerCase(s) ==
  [i \in 1..Len(s) |-> toLowerCaseChar(s[i])]

\* String.prototype.includes: k occurs in s as a contiguous substring
includes(s, k) ==
  \E i \in 0..(Len(s) - Len(k)) : \A j \in 1..Len(k) : s[i + j] = k[j]

\* String.prototype.indexOf for a single character, 0-based, -1 if absent
indexOf(s, c) ==
  IF \E i \in 1..Len(s) : s[i] = c
    THEN (CHOOSE i \in 1..Len(s) : s[i] = c /\ \A j \in 1..(i - 1) : s[j] # c) - 1
    ELSE -1

\* String.prototype.lastIndexOf for a single character, 0-based, -1 if absent
lastIndexOf(s, c) ==
  IF \E i \in 1..Len(s) : s[i] = c
    THEN (CHOOSE i \in 1..Len(s) : s[i] = c /\ \A j \in (i + 1)..Len(s) : s[j] # c) - 1
    ELSE -1

\* String.prototype.slice(from, to) with 0-based from (inclusive) and to (exclusive)
slice(s, from, to) ==
  SubSeq(s, from + 1, to)

\* String.prototype.trim (the only white space character of the model is " ")
RECURSIVE trimStart(_)
trimStart(s) ==
  IF Len(s) > 0 /\ Head(s) = " " THEN trimStart(Tail(s)) ELSE s

RECURSIVE trimEnd(_)
trimEnd(s) ==
  IF Len(s) > 0 /\ s[Len(s)] = " " THEN trimEnd(SubSeq(s, 1, Len(s) - 1)) ELSE s

trim(s) ==
  trimEnd(trimStart(s))

(***************************************************************************)
(* String constants of services/aiService.js.                              *)
(***************************************************************************)
\* dangerousKeywords of validateResponse: 'self-diagnose', 'self-treat',
\* 'ignore symptoms', 'delay treatment', 'alternative medicine only',
\* 'avoid doctors', 'natural cure'
dangerousKeywords ==
  { <<"s","e","l","f","-","d","i","a","g","n","o","s","e">>,
    <<"s","e","l","f","-","t","r","e","a","t">>,
    <<"i","g","n","o","r","e"," ","s","y","m","p","t","o","m","s">>,
    <<"d","e","l","a","y"," ","t","r","e","a","t","m","e","n","t">>,
    <<"a","l","t","e","r","n","a","t","i","v","e"," ","m","e","d","i","c","i","n","e"," ","o","n","l","y">>,
    <<"a","v","o","i","d"," ","d","o","c","t","o","r","s">>,
    <<"n","a","t","u","r","a","l"," ","c","u","r","e">> }

\* 'I recommend consulting with a healthcare professional for proper
\* evaluation of your symptoms.'
safeRedirectSentence ==
  <<"I"," ","r","e","c","o","m","m","e","n","d"," ","c","o","n","s","u","l","t","i","n","g"," ","w","i","t","h"," ","a"," ","h","e","a","l","t","h","c","a","r","e"," ","p","r","o","f","e","s","s","i","o","n","a","l"," ","f","o","r"," ","p","r","o","p","e","r"," ","e","v","a","l","u","a","t","i","o","n"," ","o","f"," ","y","o","u","r"," ","s","y","m","p","t","o","m","s",".">>

\* the sentence chatResponse returns from its catch block
chatFailureSentence ==
  <<"I"," ","a","p","o","l","o","g","i","z","e",","," ","b","u","t"," ","I","'","m"," ","h","a","v","i","n","g"," ","t","r","o","u","b","l","e"," ","p","r","o","c","e","s","s","i","n","g"," ","y","o","u","r"," ","r","e","q","u","e","s","t"," ","r","i","g","h","t"," ","n","o","w","."," ","P","l","e","a","s","e"," ","t","r","y"," ","a","g","a","i","n"," ","i","n"," ","a"," ","m","o","m","e","n","t",","," ","o","r"," ","c","o","n","t","a","c","t"," ","o","u","r"," ","s","u","p","p","o","r","t"," ","t","e","a","m"," ","i","f"," ","t","h","e"," ","i","s","s","u","e"," ","p","e","r","s","i","s","t","s",".">>

\* generalAdvice of ruleBasedAssessment
ruleBasedGeneralAdvice ==
  <<"T","h","i","s"," ","i","s"," ","e","d","u","c","a","t","i","o","n","a","l"," ","g","u","i","d","a","n","c","e"," ","o","n","l","y"," ","a","n","d"," ","n","o","t"," ","a"," ","d","i","a","g","n","o","s","i","s","."," ","M","o","n","i","t","o","r"," ","s","y","m","p","t","o","m"," ","c","h","a","n","g","e","s"," ","a","n","d"," ","s","e","e","k"," ","p","r","o","f","e","s","s","i","o","n","a","l"," ","c","a","r","e"," ","a","s"," ","a","p","p","r","o","p","r","i","a","t","e",".">>

\* default generalAdvice of parseFallbackResponse
fallbackGeneralAdvice ==
  <<"P","l","e","a","s","e"," ","c","o","n","s","u","l","t"," ","w","i","t","h"," ","a"," ","h","e","a","l","t","h","c","a","r","e"," ","p","r","o","f","e","s","s","i","o","n","a","l"," ","f","o","r"," ","p","r","o","p","e","r"," ","e","v","a","l","u","a","t","i","o","n",".">>

\* symptom names of the rules table of ruleBasedAssessment
fever == <<"f","e","v","e","r">>

cough == <<"c","o","u","g","h">>

headache == <<"h","e","a","d","a","c","h","e">>

nausea == <<"n","a","u","s","e","a">>

chestPain == <<"c","h","e","s","t"," ","p","a","i","n">>

fatigue == <<"f","a","t","i","g","u","e">>

abdominalPain == <<"a","b","d","o","m","i","n","a","l"," ","p","a","i","n">>

shortnessOfBreath == <<"s","h","o","r","t","n","e","s","s"," ","o","f"," ","b","r","e","a","t","h">>

(***************************************************************************)
(* String constants of models/Chat.js and of the chat message route.       *)
(***************************************************************************)
\* urgentKeywords of updateContext: 'emergency', 'urgent', 'immediate',
\* 'severe', 'critical', 'pain', 'help'
urgentKeywords ==
  { <<"e","m","e","r","g","e","n","c","y">>,
    <<"u","r","g","e","n","t">>,
    <<"i","m","m","e","d","i","a","t","e">>,
    <<"s","e","v","e","r","e">>,
    <<"c","r","i","t","i","c","a","l">>,
    <<"p","a","i","n">>,
    <<"h","e","l","p">> }

\* keywords.pain of updateChatInsights
painKeywords ==
  { <<"p","a","i","n">>,
    <<"h","u","r","t">>,
    <<"a","c","h","e">>,
    <<"s","o","r","e">>,
    <<"d","i","s","c","o","m","f","o","r","t">> }

\* keywords.emergency of updateChatInsights
emergencyKeywords ==
  { <<"e","m","e","r","g","e","n","c","y">>,
    <<"u","r","g","e","n","t">>,
    <<"i","m","m","e","d","i","a","t","e">>,
    <<"s","e","v","e","r","e">>,
    <<"c","r","i","t","i","c","a","l">> }

\* 'This application was made by Tesfahun Kere (programmer).'
makerAnswer ==
  <<"T","h","i","s"," ","a","p","p","l","i","c","a","t","i","o","n"," ","w","a","s"," ","m","a","d","e"," ","b","y"," ","T","e","s","f","a","h","u","n"," ","K","e","r","e"," ","(","p","r","o","g","r","a","m","m","e","r",")",".">>

whoMade == <<"w","h","o"," ","m","a","d","e">>

whoBuilt == <<"w","h","o"," ","b","u","i","l","t">>

whoCreated == <<"w","h","o"," ","c","r","e","a","t","e","d">>

developer == <<"d","e","v","e","l","o","p","e","r">>

site == <<"s","i","t","e">>

app == <<"a","p","p">>

application == <<"a","p","p","l","i","c","a","t","i","o","n">>

website == <<"w","e","b","s","i","t","e">>

(***************************************************************************)
(* Inputs: the texts the environment (users, the model provider) supplies. *)
(***************************************************************************)
\* symptom names a client reports beside those of the rules table:
\* 'Headache' and 'rash'
headacheCapitalized == <<"H","e","a","d","a","c","h","e">>

rash == <<"r","a","s","h">>

\* message contents a client sends: 'hi', 'severe chest pain', 'knee pain',
\* 'my back hurts', 'Who Made this app', 'the developer of this website',
\* 'developer docs', 'Is it URGENT', '' and ' '
hi == <<"h","i">>

severeChestPain == <<"s","e","v","e","r","e"," ","c","h","e","s","t"," ","p","a","i","n">>

kneePain == <<"k","n","e","e"," ","p","a","i","n">>

myBackHurts == <<"m","y"," ","b","a","c","k"," ","h","u","r","t","s">>

whoMadeThisApp == <<"W","h","o"," ","M","a","d","e"," ","t","h","i","s"," ","a","p","p">>

developerOfWebsite == <<"t","h","e"," ","d","e","v","e","l","o","p","e","r"," ","o","f"," ","t","h","i","s"," ","w","e","b","s","i","t","e">>

developerDocs == <<"d","e","v","e","l","o","p","e","r"," ","d","o","c","s">>

blank == <<" ">>

isItUrgent == <<"I","s"," ","i","t"," ","U","R","G","E","N","T">>

MessageContents ==
  { hi, severeChestPain, kneePain, myBackHurts, whoMadeThisApp,
    developerOfWebsite, developerDocs, isItUrgent, <<>>, blank }

\* texts the model provider returns in a chat completion: 'Rest well.',
\* 'Try a Natural Cure' and ''
restWell == <<"R","e","s","t"," ","w","e","l","l",".">>

tryNaturalCure == <<"T","r","y"," ","a"," ","N","a","t","u","r","a","l"," ","C","u","r","e">>

ChatCompletionContents ==
  { restWell, tryNaturalCure, <<>> }

\* generalAdvice strings inside the JSON the model provider returns
adviceRest == <<"R","e","s","t",".">>

adviceAvoidDoctors == <<"A","v","o","i","d"," ","D","o","c","t","o","r","s">>

\* prose the model provider puts before a JSON object: '', 'Sure! ',
\* 'Note {', 'Self-Treat. ' and 'Done} '
ProseBefore ==
  { <<>>,
    <<"S","u","r","e","!"," ">>,
    <<"N","o","t","e"," ","{">>,
    <<"S","e","l","f","-","T","r","e","a","t","."," ">>,
    <<"D","o","n","e","}"," ">> }

\* prose the model provider puts after a JSON object: '', ' Hope that helps.',
\* ' ', '}' and ' {end'
ProseAfter ==
  { <<>>,
    <<" ","H","o","p","e"," ","t","h","a","t"," ","h","e","l","p","s",".">>,
    <<" ">>,
    <<"}">>,
    <<" ","{","e","n","d">> }

(***************************************************************************)
(* Bounds of the model.                                                    *)
(***************************************************************************)
\* last instant of the millisecond clock in LimiterSpec
MaxTime == 3

\* number of limiter calls recorded in LimiterSpec
MaxCalls == 5

\* largest maxActions argument of the limiter under test
MaxMaxActions == 2

\* largest windowMs argument of the limiter under test
MaxWindowMs == 2

(***************************************************************************)
(* State.                                                                  *)
(***************************************************************************)
VARIABLES
  now,            \* Date.now()
  userActions,    \* the userActions Map of each limiter instance: user -> timestamps
  limiterArgs,    \* (maxActions, windowMs) each limiter instance was created with
  callLog,        \* history: the calls of the limiter under test, in order
  apiKey,         \* process.env.GROQ_API_KEY is set
  cpc,            \* POST /check: position of the request in flight
  creq,           \* POST /check: req.user, req.body.symptoms and userContext
  checkCompletion, \* POST /check: outcome of the provider call of this request
  providerCalls,  \* POST /check: provider calls made for this request
  path,           \* POST /check: the branch analyzeSymptoms returned from
  aiAssessment,   \* POST /check: the object analyzeSymptoms returned
  cres,           \* POST /check: the HTTP response
  symptomRecord,  \* POST /check: the Symptom document of this request, once saved
  refCall,        \* history: one earlier analyzeSymptoms call made without credential
  validation,     \* history: the last validateResponse call, input and result
  chat,           \* the stored Chat document of session "s1"
  mpc,            \* POST /:sessionId/message: position of the request in flight
  mreq,           \* POST /:sessionId/message: req.user, sessionId, content
  chatCompletion, \* POST /:sessionId/message: outcome of the provider call
  chatProviderCalls, \* POST /:sessionId/message: provider calls made for this request
  aiResponse,     \* POST /:sessionId/message: what chatResponse returned
  insightUpdates, \* POST /:sessionId/message: updateChatInsights runs of this request
  mres,           \* POST /:sessionId/message: the HTTP response
  chatRequests,   \* number of message requests received
  ageCall         \* the last calculateAge call: arguments, clock, zone and result

limVars == <<now, userActions, limiterArgs, callLog>>

chkVars == <<apiKey, cpc, creq, checkCompletion, providerCalls, path, aiAssessment,
             cres, symptomRecord, refCall>>

chatVars == <<chat, mpc, mreq, chatCompletion, chatProviderCalls, aiResponse,
              insightUpdates, mres, chatRequests>>

vars == <<limVars, chkVars, validation, chatVars, ageCall>>

Users == {"u1", "u2"}

\* req.user is not set
NoUser == "anonymous"

\* the limiter instances: the two of the routes and one created with
\* arbitrary arguments
Limiters == {"symptomCheckLimiter", "chatMessageLimiter", "limiter"}

(***************************************************************************)
(* Rate limiter: userActionLimiter of middleware/auth.js.                  *)
(***************************************************************************)
\* the middleware, applied to the list stored for the user at time t, with
\* timestamps that have aged out still counted when exactly windowMs old
userActionLimiterInclusive(maxActions, windowMs, userActionsList, t) ==
  LET inWindow(time) == t - time <= windowMs
      validActions == SelectSeq(userActionsList, inWindow)
  IN IF Len(validActions) >= maxActions
       THEN [next |-> FALSE, list |-> validActions]
       ELSE [next |-> TRUE, list |-> Append(validActions, t)]

\* the middleware without validActions.push(now)
userActionLimiterNoPush(maxActions, windowMs, userActionsList, t) ==
  LET inWindow(time) == t - time < windowMs
      validActions == SelectSeq(userActionsList, inWindow)
  IN IF Len(validActions) >= maxActions
       THEN [next |-> FALSE, list |-> validActions]
       ELSE [next |-> TRUE, list |-> validActions]

\* the middleware, applied to the list stored for the user at time t:
\* next is TRUE when the request is passed on, FALSE when it is answered 429
userActionLimiter(maxActions, windowMs, userActionsList, t) ==
  LET inWindow(time) == t - time < windowMs
      validActions == SelectSeq(userActionsList, inWindow)
  IN IF Len(validActions) >= maxActions
       THEN [next |-> FALSE, list |-> validActions]
       ELSE [next |-> TRUE, list |-> Append(validActions, t)]

\* a request of user u (NoUser: req.user unset) passes limiter instance l
limiterResult(l, u) ==
  IF u = NoUser
    THEN [next |-> TRUE, list |-> <<>>]
    ELSE userActionLimiter(limiterArgs[l].maxActions, limiterArgs[l].windowMs,
                           userActions[l][u], now)

\* the userActions Map kept under one key for every user
limiterStoreOneKey(l, u) ==
  IF u = NoUser
    THEN userActions
    ELSE [userActions EXCEPT ![l] = [v \in Users |-> limiterResult(l, u).list]]

\* the userActions Map of instance l after the request of user u
limiterStore(l, u) ==
  IF u = NoUser
    THEN userActions
    ELSE [userActions EXCEPT ![l][u] = limiterResult(l, u).list]

\* arguments of the two limiters of the routes
symptomCheckLimiter == [maxActions |-> 5, windowMs |-> 60 * 60 * 1000]

chatMessageLimiter == [maxActions |-> 20, windowMs |-> 60 * 1000]

InitLimiterVars ==
  /\ now = 0
  /\ userActions = [l \in Limiters |-> [u \in Users |-> <<>>]]
  /\ callLog = <<>>

\* a request reaches the limiter under test
LimiterCall(u) ==
  /\ Len(callLog) < MaxCalls
  /\ userActions' = limiterStore("limiter", u)
  /\ callLog' = Append(callLog, [user |-> u, time |-> now,
                                 next |-> limiterResult("limiter", u).next])
  /\ UNCHANGED <<ageCall, now, limiterArgs, chkVars, validation, chatVars>>

\* one millisecond passes
Tick ==
  /\ now < MaxTime
  /\ now' = now + 1
  /\ UNCHANGED <<ageCall, userActions, limiterArgs, callLog, chkVars, validation, chatVars>>

(***************************************************************************)
(* The AI service: services/aiService.js.                                  *)
(***************************************************************************)
Min(a, b) == IF a <= b THEN a ELSE b

Max(a, b) == IF a >= b THEN a ELSE b

\* severityScore of ruleBasedAssessment
severityScore == [mild |-> 1, moderate |-> 2, severe |-> 3]

\* severityScore[(s.severity || 'mild')] || 1
scoreOf(s) ==
  IF s.severity \in DOMAIN severityScore THEN severityScore[s.severity] ELSE 1

\* symptoms.reduce((sum, s) => sum + score, 0)
RECURSIVE totalSeverityOf(_)
totalSeverityOf(symptoms) ==
  IF symptoms = <<>> THEN 0
  ELSE scoreOf(Head(symptoms)) + totalSeverityOf(Tail(symptoms))

\* symptoms.reduce((max, s) => Math.max(max, score), 1)
RECURSIVE maxSeverityOf(_)
maxSeverityOf(symptoms) ==
  IF symptoms = <<>> THEN 1
  ELSE Max(scoreOf(Head(symptoms)), maxSeverityOf(Tail(symptoms)))

\* the rules table of ruleBasedAssessment
rules ==
  << [match |-> {fever, cough}, condition |-> "Viral respiratory infection", riskBase |-> 30],
     [match |-> {headache, nausea}, condition |-> "Migraine", riskBase |-> 25],
     [match |-> {chestPain}, condition |-> "Cardiac or musculoskeletal cause", riskBase |-> 50],
     [match |-> {fatigue}, condition |-> "Fatigue (multifactorial)", riskBase |-> 20],
     [match |-> {abdominalPain}, condition |-> "Gastrointestinal upset", riskBase |-> 30],
     [match |-> {shortnessOfBreath}, condition |-> "Respiratory issue", riskBase |-> 40] >>

\* the entry ruleBasedAssessment uses when no rule matches
nonSpecificRule ==
  [match |-> {}, condition |-> "Non-specific presentation", riskBase |-> 15]

\* the emergency recommendation of ruleBasedAssessment
emergencyRecommendation ==
  [type |-> "emergency",
   title |-> "Seek urgent medical care if symptoms are severe",
   description |-> "If chest pain, severe shortness of breath, fainting, or confusion occur, seek immediate medical attention.",
   priority |-> "urgent",
   timeframe |-> "Immediately"]

\* the consultation recommendation of ruleBasedAssessment
consultationRecommendation(maxSeverity) ==
  [type |-> "consultation",
   title |-> "Consult a healthcare professional",
   description |-> "Discuss these symptoms with your healthcare provider for appropriate evaluation.",
   priority |-> IF maxSeverity >= 2 THEN "high" ELSE "medium",
   timeframe |-> IF maxSeverity >= 2 THEN "Within 1-3 days" ELSE "Within 1-2 weeks"]

\* the supportive care recommendation of ruleBasedAssessment
lifestyleRecommendation ==
  [type |-> "lifestyle",
   title |-> "Supportive care",
   description |-> "Hydration, balanced diet, rest, and monitoring of symptom changes.",
   priority |-> "medium",
   timeframe |-> "Ongoing"]

\* ruleBasedAssessment with the rank left out of the probability
ruleBasedAssessmentSameRank(symptoms, userContext) ==
  LET totalSeverity == totalSeverityOf(symptoms)
      maxSeverity == maxSeverityOf(symptoms)
      names == [i \in 1..Len(symptoms) |-> toLowerCase(symptoms[i].name)]
      namesInclude(m) == \E i \in 1..Len(names) : names[i] = m
      matches(r) == \E m \in r.match : namesInclude(m)
      matched == SelectSeq(rules, matches)
      baseConditions == IF Len(matched) > 0 THEN matched ELSE <<nonSpecificRule>>
      condition(idx) ==
        LET r == baseConditions[idx + 1]
            probability == Min(90, r.riskBase + maxSeverity * 10)
            confidence == Min(90, 40 + totalSeverity * 8 - idx * 5)
        IN [condition |-> r.condition,
            probability |-> probability,
            confidence |-> confidence,
            description |-> "Estimated from reported symptoms using heuristic rules.",
            symptoms |-> names,
            riskLevel |-> IF probability >= 70 THEN "high"
                          ELSE IF probability >= 45 THEN "medium" ELSE "low"]
      possibleConditions ==
        [i \in 1..Min(3, Len(baseConditions)) |-> condition(i - 1)]
      urgent == \/ maxSeverity >= 3
                \/ namesInclude(chestPain)
                \/ namesInclude(shortnessOfBreath)
      recommendations ==
        (IF urgent THEN <<emergencyRecommendation>> ELSE <<>>)
          \o <<consultationRecommendation(maxSeverity), lifestyleRecommendation>>
  IN [possibleConditions |-> possibleConditions,
      recommendations |-> recommendations,
      generalAdvice |-> ruleBasedGeneralAdvice,
      whenToSeekHelp |-> "If symptoms worsen, new severe symptoms develop, or you are concerned, seek medical attention promptly.",
      followUp |-> [timeframe |-> "1-2 weeks",
                    actions |-> <<"Monitor symptoms daily", "Track temperature and severity",
                                  "Consult provider if persistent">>]]

\* ruleBasedAssessment that adds the emergency entry from moderate severity on
ruleBasedAssessmentUrgentFromModerate(symptoms, userContext) ==
  LET totalSeverity == totalSeverityOf(symptoms)
      maxSeverity == maxSeverityOf(symptoms)
      names == [i \in 1..Len(symptoms) |-> toLowerCase(symptoms[i].name)]
      namesInclude(m) == \E i \in 1..Len(names) : names[i] = m
      matches(r) == \E m \in r.match : namesInclude(m)
      matched == SelectSeq(rules, matches)
      baseConditions == IF Len(matched) > 0 THEN matched ELSE <<nonSpecificRule>>
      condition(idx) ==
        LET r == baseConditions[idx + 1]
            probability == Min(90, r.riskBase + maxSeverity * 10 + idx * 5)
            confidence == Min(90, 40 + totalSeverity * 8 - idx * 5)
        IN [condition |-> r.condition,
            probability |-> probability,
            confidence |-> confidence,
            description |-> "Estimated from reported symptoms using heuristic rules.",
            symptoms |-> names,
            riskLevel |-> IF probability >= 70 THEN "high"
                          ELSE IF probability >= 45 THEN "medium" ELSE "low"]
      possibleConditions ==
        [i \in 1..Min(3, Len(baseConditions)) |-> condition(i - 1)]
      urgent == \/ maxSeverity >= 2
                \/ namesInclude(chestPain)
                \/ namesInclude(shortnessOfBreath)
      recommendations ==
        (IF urgent THEN <<emergencyRecommendation>> ELSE <<>>)
          \o <<consultationRecommendation(maxSeverity), lifestyleRecommendation>>
  IN [possibleConditions |-> possibleConditions,
      recommendations |-> recommendations,
      generalAdvice |-> ruleBasedGeneralAdvice,
      whenToSeekHelp |-> "If symptoms worsen, new severe symptoms develop, or you are concerned, seek medical attention promptly.",
      followUp |-> [timeframe |-> "1-2 weeks",
                    actions |-> <<"Monitor symptoms daily", "Track temperature and severity",
                                  "Consult provider if persistent">>]]

\* ruleBasedAssessment(symptoms, userContext)
ruleBasedAssessment(symptoms, userContext) ==
  LET totalSeverity == totalSeverityOf(symptoms)
      maxSeverity == maxSeverityOf(symptoms)
      names == [i \in 1..Len(symptoms) |-> toLowerCase(symptoms[i].name)]
      namesInclude(m) == \E i \in 1..Len(names) : names[i] = m
      matches(r) == \E m \in r.match : namesInclude(m)
      matched == SelectSeq(rules, matches)
      baseConditions == IF Len(matched) > 0 THEN matched ELSE <<nonSpecificRule>>
      condition(idx) ==
        LET r == baseConditions[idx + 1]
            probability == Min(90, r.riskBase + maxSeverity * 10 + idx * 5)
            confidence == Min(90, 40 + totalSeverity * 8 - idx * 5)
        IN [condition |-> r.condition,
            probability |-> probability,
            confidence |-> confidence,
            description |-> "Estimated from reported symptoms using heuristic rules.",
            symptoms |-> names,
            riskLevel |-> IF probability >= 70 THEN "high"
                          ELSE IF probability >= 45 THEN "medium" ELSE "low"]
      possibleConditions ==
        [i \in 1..Min(3, Len(baseConditions)) |-> condition(i - 1)]
      urgent == \/ maxSeverity >= 3
                \/ namesInclude(chestPain)
                \/ namesInclude(shortnessOfBreath)
      recommendations ==
        (IF urgent THEN <<emergencyRecommendation>> ELSE <<>>)
          \o <<consultationRecommendation(maxSeverity), lifestyleRecommendation>>
  IN [possibleConditions |-> possibleConditions,
      recommendations |-> recommendations,
      generalAdvice |-> ruleBasedGeneralAdvice,
      whenToSeekHelp |-> "If symptoms worsen, new severe symptoms develop, or you are concerned, seek medical attention promptly.",
      followUp |-> [timeframe |-> "1-2 weeks",
                    actions |-> <<"Monitor symptoms daily", "Track temperature and severity",
                                  "Consult provider if persistent">>]]

\* parseFallbackResponse that always answers with the fixed advice
parseFallbackResponseFixedAdvice(response) ==
  [possibleConditions |->
     << [condition |-> "General symptoms",
         probability |-> 50,
         confidence |-> 60,
         description |-> "Based on the symptoms provided",
         symptoms |-> << <<"Various symptoms">> >>,
         riskLevel |-> "medium"] >>,
   recommendations |->
     << [type |-> "consultation",
         title |-> "Consult Healthcare Provider",
         description |-> "Schedule an appointment with your doctor to discuss these symptoms",
         priority |-> "medium",
         timeframe |-> "Within a week"] >>,
   generalAdvice |-> fallbackGeneralAdvice,
   whenToSeekHelp |-> "If symptoms persist or worsen, seek medical attention promptly.",
   followUp |-> [timeframe |-> "1-2 weeks",
                 actions |-> <<"Monitor symptoms", "Schedule doctor appointment">>]]

\* parseFallbackResponse(response)
parseFallbackResponse(response) ==
  [possibleConditions |->
     << [condition |-> "General symptoms",
         probability |-> 50,
         confidence |-> 60,
         description |-> "Based on the symptoms provided",
         symptoms |-> << <<"Various symptoms">> >>,
         riskLevel |-> "medium"] >>,
   recommendations |->
     << [type |-> "consultation",
         title |-> "Consult Healthcare Provider",
         description |-> "Schedule an appointment with your doctor to discuss these symptoms",
         priority |-> "medium",
         timeframe |-> "Within a week"] >>,
   generalAdvice |-> IF response # <<>> THEN response ELSE fallbackGeneralAdvice,
   whenToSeekHelp |-> "If symptoms persist or worsen, seek medical attention promptly.",
   followUp |-> [timeframe |-> "1-2 weeks",
                 actions |-> <<"Monitor symptoms", "Schedule doctor appointment">>]]

(***************************************************************************)
(* The answers of the model provider and JSON.parse.                       *)
(***************************************************************************)
\* an Assessment the model provider serializes, with the given conditions
\* and generalAdvice
modelAssessment(conditions, advice) ==
  [possibleConditions |-> conditions,
   recommendations |->
     << [type |-> "monitoring",
         title |-> "Watch your temperature",
         description |-> "Measure it twice a day",
         priority |-> "low",
         timeframe |-> "3 days"] >>,
   generalAdvice |-> advice,
   whenToSeekHelp |-> "If the fever lasts more than three days.",
   followUp |-> [timeframe |-> "1 week", actions |-> <<"Rest">>]]

\* a possibleConditions entry the model provider serializes
modelCondition(probability, confidence) ==
  [condition |-> "Common cold",
   probability |-> probability,
   confidence |-> confidence,
   description |-> "A mild viral infection",
   symptoms |-> <<fever>>,
   riskLevel |-> "low"]

\* the JSON object bodies the model provider returns, by symbol: a complete
\* Assessment, one without conditions, one with numbers outside 0..100 and
\* one whose generalAdvice holds a denylisted phrase
JsonBody ==
  [jsonAssessment |-> modelAssessment(<<modelCondition(60, 70)>>, adviceRest),
   jsonNoConditions |-> modelAssessment(<<>>, adviceRest),
   jsonOutOfRange |-> modelAssessment(<<modelCondition(150, -5)>>, adviceRest),
   jsonUnsafeAdvice |-> modelAssessment(<<modelCondition(60, 70)>>, adviceAvoidDoctors)]

\* the characters of a text in which string searches can match: a JSON body
\* symbol is replaced by the string literal of its generalAdvice (the other
\* members of the bodies above hold no keyword the code searches for)
RECURSIVE chars(_)
chars(s) ==
  IF \A i \in 1..Len(s) : s[i] \notin DOMAIN JsonBody THEN s
  ELSE LET i == CHOOSE k \in 1..Len(s) :
                  /\ s[k] \in DOMAIN JsonBody
                  /\ \A j \in 1..(k - 1) : s[j] \notin DOMAIN JsonBody
       IN SubSeq(s, 1, i - 1) \o <<"\"">> \o JsonBody[s[i]].generalAdvice \o <<"\"">>
            \o chars(SubSeq(s, i + 1, Len(s)))

\* JSON.parse(text): ok is FALSE when it throws a SyntaxError
JSONparse(text) ==
  LET t == trim(text)
  IN IF Len(t) = 3 /\ t[1] = "{" /\ t[3] = "}" /\ t[2] \in DOMAIN JsonBody
       THEN [ok |-> TRUE, value |-> JsonBody[t[2]]]
       ELSE [ok |-> FALSE, value |-> JsonBody.jsonNoConditions]

\* the texts the model provider answers a symptom analysis with: prose, a
\* JSON object, or a JSON object wrapped in prose
AnalysisResponses ==
  { before \o json \o after :
      before \in ProseBefore,
      json \in {<<>>} \cup { <<"{", b, "}">> : b \in DOMAIN JsonBody },
      after \in ProseAfter }

\* outcomes of this.groq.chat.completions.create in analyzeSymptoms: the call
\* throws, resolves without content, or resolves with content
AnalysisCompletions ==
  {[kind |-> "error", content |-> <<>>], [kind |-> "missing", content |-> <<>>]}
    \cup { [kind |-> "content", content |-> r] : r \in AnalysisResponses }

\* outcomes of this.groq.chat.completions.create in chatResponse
ChatCompletions ==
  {[kind |-> "error", content |-> <<>>], [kind |-> "missing", content |-> <<>>]}
    \cup { [kind |-> "content", content |-> r] : r \in ChatCompletionContents }

\* completion.choices?.[0]?.message?.content || ''
contentOf(completion) ==
  IF completion.kind = "content" THEN completion.content ELSE <<>>

(***************************************************************************)
(* analyzeSymptoms, chatResponse and validateResponse.                     *)
(***************************************************************************)
\* the parse chain with a slice that stops before the last brace
parseResponseExclusiveSlice(response) ==
  LET direct == JSONparse(response)
      firstBrace == indexOf(response, "{")
      lastBrace == lastIndexOf(response, "}")
      jsonSlice == slice(response, firstBrace, lastBrace)
  IN IF direct.ok
       THEN [path |-> "direct", value |-> direct.value]
     ELSE IF /\ firstBrace # -1 /\ lastBrace # -1 /\ lastBrace > firstBrace
             /\ JSONparse(jsonSlice).ok
       THEN [path |-> "slice", value |-> JSONparse(jsonSlice).value]
     ELSE [path |-> "fallback", value |-> parseFallbackResponse(response)]

\* the parse chain of analyzeSymptoms on the response text: which step
\* produced the result, and the result
parseResponse(response) ==
  LET direct == JSONparse(response)
      firstBrace == indexOf(response, "{")
      lastBrace == lastIndexOf(response, "}")
      jsonSlice == slice(response, firstBrace, lastBrace + 1)
  IN IF direct.ok
       THEN [path |-> "direct", value |-> direct.value]
     ELSE IF /\ firstBrace # -1 /\ lastBrace # -1 /\ lastBrace > firstBrace
             /\ JSONparse(jsonSlice).ok
       THEN [path |-> "slice", value |-> JSONparse(jsonSlice).value]
     ELSE [path |-> "fallback", value |-> parseFallbackResponse(response)]

\* analyzeSymptoms whose catch block answers with the static fallback
analyzeSymptomsStaticOnError(symptoms, userContext, credential, completion) ==
  IF ~credential
    THEN [path |-> "noKey", value |-> ruleBasedAssessment(symptoms, userContext)]
  ELSE IF completion.kind = "error"
    THEN [path |-> "catch", value |-> parseFallbackResponse(<<>>)]
  ELSE parseResponse(contentOf(completion))

\* analyzeSymptoms without the credential test
analyzeSymptomsIgnoringCredential(symptoms, userContext, credential, completion) ==
  IF completion.kind = "error"
    THEN [path |-> "catch", value |-> ruleBasedAssessment(symptoms, userContext)]
    ELSE parseResponse(contentOf(completion))

\* analyzeSymptoms(symptoms, userContext), given process.env.GROQ_API_KEY
\* and, when the provider is called, the outcome of that call
analyzeSymptoms(symptoms, userContext, credential, completion) ==
  IF ~credential
    THEN [path |-> "noKey", value |-> ruleBasedAssessment(symptoms, userContext)]
  ELSE IF completion.kind = "error"
    THEN [path |-> "catch", value |-> ruleBasedAssessment(symptoms, userContext)]
  ELSE parseResponse(contentOf(completion))

\* chatResponse whose catch block returns the empty string
chatResponseEmptyOnError(message, chatHistory, userContext, completion) ==
  IF completion.kind = "error"
    THEN <<>>
    ELSE contentOf(completion)

\* chatResponse(message, chatHistory, userContext), given the outcome of the
\* provider call
chatResponse(message, chatHistory, userContext, completion) ==
  IF completion.kind = "error"
    THEN chatFailureSentence
    ELSE contentOf(completion)

\* validateResponse that searches the text as written
validateResponseCaseSensitive(response) ==
  LET hasDangerousContent ==
        \E keyword \in dangerousKeywords : includes(chars(response), keyword)
  IN IF hasDangerousContent
       THEN [isValid |-> FALSE, sanitizedResponse |-> safeRedirectSentence]
       ELSE [isValid |-> TRUE, sanitizedResponse |-> response]

\* validateResponse with every in place of some
validateResponseEveryKeyword(response) ==
  LET hasDangerousContent ==
        \A keyword \in dangerousKeywords :
          includes(toLowerCase(chars(response)), keyword)
  IN IF hasDangerousContent
       THEN [isValid |-> FALSE, sanitizedResponse |-> safeRedirectSentence]
       ELSE [isValid |-> TRUE, sanitizedResponse |-> response]

\* validateResponse(response)
validateResponse(response) ==
  LET hasDangerousContent ==
        \E keyword \in dangerousKeywords :
          includes(toLowerCase(chars(response)), keyword)
  IN IF hasDangerousContent
       THEN [isValid |-> FALSE, sanitizedResponse |-> safeRedirectSentence]
       ELSE [isValid |-> TRUE, sanitizedResponse |-> response]

(***************************************************************************)
(* calculateAge of the routes.                                             *)
(***************************************************************************)
\* a calendar date as the Date getters report it: getFullYear(), getMonth()
\* (0 is January) and getDate()
calendarDate(year, month, date) == [year |-> year, month |-> month, date |-> date]

isLeapYear(year) == (year % 4 = 0 /\ year % 100 # 0) \/ year % 400 = 0

daysInMonth(year, month) ==
  IF month = 1 THEN (IF isLeapYear(year) THEN 29 ELSE 28)
  ELSE IF month \in {3, 5, 8, 10} THEN 30 ELSE 31

previousDay(d) ==
  IF d.date > 1 THEN calendarDate(d.year, d.month, d.date - 1)
  ELSE IF d.month > 0
    THEN calendarDate(d.year, d.month - 1, daysInMonth(d.year, d.month - 1))
  ELSE calendarDate(d.year - 1, 11, 31)

\* new Date(dateOfBirth) read with getFullYear / getMonth / getDate: the
\* stored dateOfBirth is midnight UTC of the registered date (a Date cast
\* from 'YYYY-MM-DD'), and the getters report it in the local time of the
\* server, offsetHours from UTC
localDateOf(utcDate, offsetHours) ==
  IF offsetHours < 0 THEN previousDay(utcDate) ELSE utcDate

\* calculateAge(dateOfBirth) when new Date() reports the local date today
calculateAge(dateOfBirth, today, offsetHours) ==
  LET birthDate == localDateOf(dateOfBirth, offsetHours)
      age == today.year - birthDate.year
      monthDiff == today.month - birthDate.month
  IN IF monthDiff < 0 \/ (monthDiff = 0 /\ today.date < birthDate.date)
       THEN age - 1
       ELSE age

\* registered dates of birth: 2000-03-15, 2000-02-29, 2000-01-01,
\* 1999-12-31 and 2001-03-01
BirthDates ==
  { calendarDate(2000, 2, 15), calendarDate(2000, 1, 29), calendarDate(2000, 0, 1),
    calendarDate(1999, 11, 31), calendarDate(2001, 2, 1) }

\* local dates on which requests arrive
EvalDates ==
  { calendarDate(y, m, d) : y \in {2000, 2001, 2023, 2024}, m \in {0, 1, 2, 11},
                            d \in {1, 14, 15, 16, 28, 29, 31} }

\* offsets of the server's local time from UTC, in hours
TimezoneOffsets == {-5, 0, 3}

\* date a is on or after date b
onOrAfter(a, b) ==
  \/ a.year > b.year
  \/ a.year = b.year /\ a.month > b.month
  \/ a.year = b.year /\ a.month = b.month /\ a.date >= b.date

noAgeCall == [made |-> FALSE, dateOfBirth |-> calendarDate(0, 0, 1),
              today |-> calendarDate(0, 0, 1), offsetHours |-> 0, age |-> 0]

\* a handler builds userContext for a user with the given dateOfBirth
CalculateAge(dateOfBirth, today, offsetHours) ==
  /\ today.date <= daysInMonth(today.year, today.month)
  /\ onOrAfter(today, dateOfBirth)
  /\ ageCall' = [made |-> TRUE, dateOfBirth |-> dateOfBirth, today |-> today,
                 offsetHours |-> offsetHours,
                 age |-> calculateAge(dateOfBirth, today, offsetHours)]
  /\ UNCHANGED <<limVars, chkVars, validation, chatVars>>

(***************************************************************************)
(* The symptom check route: POST /check.                                   *)
(***************************************************************************)
\* req.body.symptoms of the requests: one matched symptom, an unmatched one
\* (moderate, and severe), chest pain, two matches with a capitalized name,
\* four matches, a breathing symptom, and two bodies the validators reject
SymptomReports ==
  { << [name |-> fever, severity |-> "mild"] >>,
    << [name |-> rash, severity |-> "moderate"] >>,
    << [name |-> rash, severity |-> "severe"] >>,
    << [name |-> chestPain, severity |-> "severe"] >>,
    << [name |-> headacheCapitalized, severity |-> "mild"],
       [name |-> fever, severity |-> "severe"] >>,
    << [name |-> fever, severity |-> "severe"],
       [name |-> headacheCapitalized, severity |-> "severe"],
       [name |-> chestPain, severity |-> "severe"],
       [name |-> fatigue, severity |-> "severe"] >>,
    << [name |-> shortnessOfBreath, severity |-> "mild"] >>,
    << >>,
    << [name |-> fever, severity |-> "extreme"] >> }

\* the userContext the handler builds from the user document
UserContexts ==
  { [age |-> 34, gender |-> "female", existingConditions |-> <<>>,
     medications |-> <<>>, allergies |-> <<>>],
    [age |-> 70, gender |-> "male", existingConditions |-> <<"Asthma">>,
     medications |-> <<>>, allergies |-> <<>>] }

\* who sends the requests of CheckSpec: one authenticated user, and a client
\* without a valid token
CheckClients == {"u1", NoUser}

\* the express-validator chain of POST /check
symptomsValid(symptoms) ==
  /\ Len(symptoms) >= 1
  /\ \A i \in 1..Len(symptoms) :
       /\ symptoms[i].name # <<>>
       /\ symptoms[i].severity \in {"mild", "moderate", "severe"}

\* the validators of symptomSchema.aiAssessment that symptomRecord.save() runs
symptomSchemaValid(assessment) ==
  /\ \A i \in 1..Len(assessment.possibleConditions) :
       LET c == assessment.possibleConditions[i]
       IN /\ c.probability >= 0 /\ c.probability <= 100
          /\ c.confidence >= 0 /\ c.confidence <= 100
          /\ c.riskLevel \in {"low", "medium", "high", "critical"}
  /\ \A i \in 1..Len(assessment.recommendations) :
       LET r == assessment.recommendations[i]
       IN /\ r.type \in {"lifestyle", "medication", "consultation", "emergency", "monitoring"}
          /\ r.priority \in {"low", "medium", "high", "urgent"}

\* no value: the fields of a request that was not filled in yet
noAssessment ==
  [possibleConditions |-> <<>>, recommendations |-> <<>>, generalAdvice |-> <<>>,
   whenToSeekHelp |-> "", followUp |-> [timeframe |-> "", actions |-> <<>>]]

noCompletion == [kind |-> "none", content |-> <<>>]

noRequest == [user |-> NoUser, symptoms |-> <<>>, userContext |-> [age |-> 0]]

noRecord == [saved |-> FALSE, userId |-> NoUser, symptoms |-> <<>>,
             aiAssessment |-> noAssessment]

noCall == [made |-> FALSE, symptoms |-> <<>>, userContext |-> [age |-> 0],
           value |-> noAssessment]

noValidation == [called |-> FALSE, response |-> <<>>, isValid |-> TRUE,
                 sanitizedResponse |-> <<>>]

\* the record of a validateResponse call
validationOf(response) ==
  [called |-> TRUE, response |-> response,
   isValid |-> validateResponse(response).isValid,
   sanitizedResponse |-> validateResponse(response).sanitizedResponse]

InitCheckVars ==
  /\ creq = noRequest
  /\ checkCompletion = noCompletion
  /\ providerCalls = 0
  /\ path = "none"
  /\ aiAssessment = noAssessment
  /\ cres = [status |-> 0, assessment |-> noAssessment]
  /\ symptomRecord = noRecord
  /\ refCall = noCall
  /\ validation = noValidation

\* the check request with the validators run before the limiter
CheckRequestValidatorsFirst(u, symptoms, userContext) ==
  /\ cpc \in {"idle", "done"}
  /\ checkCompletion' = noCompletion
  /\ providerCalls' = 0
  /\ path' = "none"
  /\ aiAssessment' = noAssessment
  /\ symptomRecord' = noRecord
  /\ validation' = noValidation
  /\ creq' = [user |-> u, symptoms |-> symptoms, userContext |-> userContext]
  /\ IF u = NoUser
       THEN /\ cres' = [status |-> 401, assessment |-> noAssessment]
            /\ cpc' = "done"
            /\ UNCHANGED userActions
       ELSE IF ~symptomsValid(symptoms)
         THEN /\ cres' = [status |-> 400, assessment |-> noAssessment]
              /\ cpc' = "done"
              /\ UNCHANGED userActions
       ELSE /\ userActions' = limiterStore("symptomCheckLimiter", u)
            /\ IF ~limiterResult("symptomCheckLimiter", u).next
                 THEN /\ cres' = [status |-> 429, assessment |-> noAssessment]
                      /\ cpc' = "done"
               ELSE /\ cres' = [status |-> 0, assessment |-> noAssessment]
                    /\ cpc' = "analyze"
  \* history: the call of the request that just finished may be remembered
  /\ \/ UNCHANGED refCall
     \/ /\ path = "noKey"
        /\ refCall' = [made |-> TRUE, symptoms |-> creq.symptoms,
                       userContext |-> creq.userContext,
                       value |-> aiAssessment]
  /\ UNCHANGED <<ageCall, now, limiterArgs, callLog, apiKey, chatVars>>

\* a request arrives: auth, symptomCheckLimiter, the validators
CheckRequest(u, symptoms, userContext) ==
  /\ cpc \in {"idle", "done"}
  /\ checkCompletion' = noCompletion
  /\ providerCalls' = 0
  /\ path' = "none"
  /\ aiAssessment' = noAssessment
  /\ symptomRecord' = noRecord
  /\ validation' = noValidation
  /\ creq' = [user |-> u, symptoms |-> symptoms, userContext |-> userContext]
  /\ IF u = NoUser
       THEN /\ cres' = [status |-> 401, assessment |-> noAssessment]
            /\ cpc' = "done"
            /\ UNCHANGED userActions
       ELSE /\ userActions' = limiterStore("symptomCheckLimiter", u)
            /\ IF ~limiterResult("symptomCheckLimiter", u).next
                 THEN /\ cres' = [status |-> 429, assessment |-> noAssessment]
                      /\ cpc' = "done"
               ELSE IF ~symptomsValid(symptoms)
                 THEN /\ cres' = [status |-> 400, assessment |-> noAssessment]
                      /\ cpc' = "done"
               ELSE /\ cres' = [status |-> 0, assessment |-> noAssessment]
                    /\ cpc' = "analyze"
  \* history: the call of the request that just finished may be remembered
  /\ \/ UNCHANGED refCall
     \/ /\ path = "noKey"
        /\ refCall' = [made |-> TRUE, symptoms |-> creq.symptoms,
                       userContext |-> creq.userContext,
                       value |-> aiAssessment]
  /\ UNCHANGED <<ageCall, now, limiterArgs, callLog, apiKey, chatVars>>

\* await aiService.analyzeSymptoms(symptoms, userContext); c is what the
\* provider call yields if it is made
CheckAnalyze(c) ==
  /\ cpc = "analyze"
  /\ LET result == analyzeSymptoms(creq.symptoms, creq.userContext, apiKey, c)
         called == result.path # "noKey"
     IN /\ checkCompletion' = IF called THEN c ELSE noCompletion
        /\ providerCalls' = IF called THEN providerCalls + 1 ELSE providerCalls
        /\ path' = result.path
        /\ aiAssessment' = result.value
  /\ cpc' = "respond"
  /\ UNCHANGED <<ageCall, limVars, apiKey, creq, cres, symptomRecord, refCall, validation,
                 chatVars>>

\* validateResponse on generalAdvice, symptomRecord.save(), the response
CheckRespond ==
  /\ cpc = "respond"
  /\ validation' = validationOf(aiAssessment.generalAdvice)
  /\ LET validated == IF ~validation'.isValid
                        THEN [aiAssessment EXCEPT !.generalAdvice = validation'.sanitizedResponse]
                        ELSE aiAssessment
     IN /\ aiAssessment' = validated
        /\ IF symptomSchemaValid(validated)
             THEN /\ symptomRecord' = [saved |-> TRUE, userId |-> creq.user,
                                       symptoms |-> creq.symptoms,
                                       aiAssessment |-> validated]
                  /\ cres' = [status |-> 201, assessment |-> validated]
             ELSE /\ cres' = [status |-> 500, assessment |-> noAssessment]
                  /\ UNCHANGED symptomRecord
  /\ cpc' = "done"
  /\ UNCHANGED <<ageCall, limVars, apiKey, creq, checkCompletion, providerCalls, path, refCall,
                 chatVars>>

(***************************************************************************)
(* The chat session document: models/Chat.js.                              *)
(***************************************************************************)
\* the last n elements of a sequence: Array.prototype.slice(-n)
lastElements(seq, n) ==
  SubSeq(seq, Max(1, Len(seq) - n + 1), Len(seq))

isUserMessage(msg) == msg.role = "user"

\* updateContext that lowers the urgency when the last user message holds no
\* keyword
updateContextDowngrading(doc) ==
  IF Len(doc.messages) = 0 THEN doc
  ELSE
    LET recentMessages == lastElements(doc.messages, 5)
        userMessages == SelectSeq(recentMessages, isUserMessage)
    IN IF Len(userMessages) > 0
         THEN LET lastUserMessage == userMessages[Len(userMessages)]
                  hasUrgentKeywords ==
                    \E keyword \in urgentKeywords :
                      includes(toLowerCase(lastUserMessage.content), keyword)
              IN IF hasUrgentKeywords
                   THEN [doc EXCEPT !.context.urgencyLevel = "high",
                                    !.context.emotionalState = "urgent"]
                   ELSE [doc EXCEPT !.context.urgencyLevel = "low",
                                    !.context.emotionalState = "calm"]
         ELSE doc

\* updateContext with every in place of some
updateContextEveryKeyword(doc) ==
  IF Len(doc.messages) = 0 THEN doc
  ELSE
    LET recentMessages == lastElements(doc.messages, 5)
        userMessages == SelectSeq(recentMessages, isUserMessage)
    IN IF Len(userMessages) > 0
         THEN LET lastUserMessage == userMessages[Len(userMessages)]
                  hasUrgentKeywords ==
                    \A keyword \in urgentKeywords :
                      includes(toLowerCase(lastUserMessage.content), keyword)
              IN IF hasUrgentKeywords
                   THEN [doc EXCEPT !.context.urgencyLevel = "high",
                                    !.context.emotionalState = "urgent"]
                   ELSE doc
         ELSE doc

\* chatSchema.methods.updateContext
updateContext(doc) ==
  IF Len(doc.messages) = 0 THEN doc
  ELSE
    LET recentMessages == lastElements(doc.messages, 5)
        userMessages == SelectSeq(recentMessages, isUserMessage)
    IN IF Len(userMessages) > 0
         THEN LET lastUserMessage == userMessages[Len(userMessages)]
                  hasUrgentKeywords ==
                    \E keyword \in urgentKeywords :
                      includes(toLowerCase(lastUserMessage.content), keyword)
              IN IF hasUrgentKeywords
                   THEN [doc EXCEPT !.context.urgencyLevel = "high",
                                    !.context.emotionalState = "urgent"]
                   ELSE doc
         ELSE doc

\* the validators of chatSchema.messages that save() runs: role is one of the
\* enum values and content is required (a required String may not be empty)
messageValid(msg) ==
  /\ msg.role \in {"user", "assistant", "system"}
  /\ msg.content # <<>>

\* addMessage with unshift in place of push
addMessageUnshift(doc, role, content) ==
  LET pushed == [doc EXCEPT !.messages = <<[role |-> role, content |-> content]>> \o @]
  IN [doc |-> updateContext(pushed),
      saved |-> \A i \in 1..Len(pushed.messages) : messageValid(pushed.messages[i])]

\* chatSchema.methods.addMessage: the document after push and updateContext,
\* and whether save() resolves
addMessage(doc, role, content) ==
  LET pushed == [doc EXCEPT !.messages = Append(@, [role |-> role, content |-> content])]
  IN [doc |-> updateContext(pushed),
      saved |-> \A i \in 1..Len(pushed.messages) : messageValid(pushed.messages[i])]

(***************************************************************************)
(* The chat routes: POST /:sessionId/message and PUT /:sessionId.          *)
(***************************************************************************)
\* most messages a session holds in ChatSpec
MaxMessages == 4

\* most message requests received in ChatSpec
MaxChatRequests == 3

\* the requests of ChatSpec: the owner of session "s1" sends each content to
\* it, sends one to an unknown session, and a client without a valid token
\* sends one
MessageRequests ==
  { [user |-> "u1", sessionId |-> "s1", content |-> c] : c \in MessageContents }
    \cup { [user |-> "u1", sessionId |-> "s9", content |-> hi],
           [user |-> NoUser, sessionId |-> "s1", content |-> hi] }

SessionStatuses == {"active", "paused", "completed", "archived"}

\* asksWhoMade that searches the content as written
asksWhoMadeCaseSensitive(content) ==
  \/ includes(content, whoMade)
  \/ includes(content, whoBuilt)
  \/ includes(content, whoCreated)
  \/ /\ includes(content, developer)
     /\ \/ includes(content, site)
        \/ includes(content, app)
        \/ includes(content, application)
        \/ includes(content, website)

\* asksWhoMade of the message handler
asksWhoMade(content) ==
  LET text == toLowerCase(content)
  IN \/ includes(text, whoMade)
     \/ includes(text, whoBuilt)
     \/ includes(text, whoCreated)
     \/ /\ includes(text, developer)
        /\ \/ includes(text, site)
           \/ includes(text, app)
           \/ includes(text, application)
           \/ includes(text, website)

\* updateChatInsights that never lowers a level of high
updateChatInsightsNeverLower(doc) ==
  IF Len(doc.messages) < 2 THEN doc
  ELSE
    LET userMessages == SelectSeq(doc.messages, isUserMessage)
    IN IF Len(userMessages) = 0 THEN doc
       ELSE
         LET lastUserMessage == userMessages[Len(userMessages)]
             text == toLowerCase(lastUserMessage.content)
             emergency == \/ \E word \in emergencyKeywords : includes(text, word)
                          \/ doc.aiInsights.riskAssessment.level = "high"
             pain == \E word \in painKeywords : includes(text, word)
         IN [doc EXCEPT
               !.aiInsights.primaryConcern =
                  IF emergency THEN "emergency" ELSE IF pain THEN "symptoms" ELSE "general",
               !.aiInsights.riskAssessment.level =
                  IF emergency THEN "high" ELSE IF pain THEN "medium" ELSE "low"]

\* updateChatInsights(chat)
updateChatInsights(doc) ==
  IF Len(doc.messages) < 2 THEN doc
  ELSE
    LET userMessages == SelectSeq(doc.messages, isUserMessage)
    IN IF Len(userMessages) = 0 THEN doc
       ELSE
         LET lastUserMessage == userMessages[Len(userMessages)]
             text == toLowerCase(lastUserMessage.content)
             emergency == \E word \in emergencyKeywords : includes(text, word)
             pain == \E word \in painKeywords : includes(text, word)
         IN [doc EXCEPT
               !.aiInsights.primaryConcern =
                  IF emergency THEN "emergency" ELSE IF pain THEN "symptoms" ELSE "general",
               !.aiInsights.riskAssessment.level =
                  IF emergency THEN "high" ELSE IF pain THEN "medium" ELSE "low"]

noMessageRequest == [user |-> NoUser, sessionId |-> "", content |-> <<>>]

noMessageResponse == [status |-> 0, response |-> <<>>]

\* the session POST /start created for user "u1"
newChat ==
  [userId |-> "u1",
   sessionId |-> "s1",
   status |-> "active",
   messages |-> <<>>,
   context |-> [emotionalState |-> "calm", urgencyLevel |-> "low"],
   aiInsights |-> [primaryConcern |-> "", riskAssessment |-> [level |-> "low"]]]

InitChatVars ==
  /\ chat = newChat
  /\ mreq = noMessageRequest
  /\ chatCompletion = noCompletion
  /\ chatProviderCalls = 0
  /\ aiResponse = <<>>
  /\ insightUpdates = 0
  /\ mres = noMessageResponse
  /\ chatRequests = 0

\* the message request with a limiter that answers 429 and calls next() all
\* the same
MessageRequestNextAfterReject(u, sessionId, content) ==
  /\ mpc \in {"idle", "done"}
  /\ chatRequests < MaxChatRequests
  /\ Len(chat.messages) + 2 <= MaxMessages
  /\ chatRequests' = chatRequests + 1
  /\ chatCompletion' = noCompletion
  /\ chatProviderCalls' = 0
  /\ aiResponse' = <<>>
  /\ insightUpdates' = 0
  /\ validation' = noValidation
  /\ mreq' = [user |-> u, sessionId |-> sessionId, content |-> trim(content)]
  /\ IF u = NoUser
       THEN /\ mres' = [status |-> 401, response |-> <<>>]
            /\ mpc' = "done"
            /\ UNCHANGED userActions
       ELSE /\ userActions' = limiterStore("chatMessageLimiter", u)
            /\ IF ~limiterResult("chatMessageLimiter", u).next
                 THEN /\ mres' = [status |-> 429, response |-> <<>>]
                      /\ mpc' = "addUser"
               ELSE IF trim(content) = <<>> \/ Len(content) > 1000
                 THEN /\ mres' = [status |-> 400, response |-> <<>>]
                      /\ mpc' = "done"
               ELSE IF ~(/\ sessionId = chat.sessionId
                         /\ u = chat.userId
                         /\ chat.status \in {"active", "paused"})
                 THEN /\ mres' = [status |-> 404, response |-> <<>>]
                      /\ mpc' = "done"
               ELSE /\ mres' = noMessageResponse
                    /\ mpc' = "addUser"
  /\ UNCHANGED <<ageCall, now, limiterArgs, callLog, chkVars, chat>>

\* the message request with a lookup that accepts a session of any status
MessageRequestAnyStatus(u, sessionId, content) ==
  /\ mpc \in {"idle", "done"}
  /\ chatRequests < MaxChatRequests
  /\ Len(chat.messages) + 2 <= MaxMessages
  /\ chatRequests' = chatRequests + 1
  /\ chatCompletion' = noCompletion
  /\ chatProviderCalls' = 0
  /\ aiResponse' = <<>>
  /\ insightUpdates' = 0
  /\ validation' = noValidation
  /\ mreq' = [user |-> u, sessionId |-> sessionId, content |-> trim(content)]
  /\ IF u = NoUser
       THEN /\ mres' = [status |-> 401, response |-> <<>>]
            /\ mpc' = "done"
            /\ UNCHANGED userActions
       ELSE /\ userActions' = limiterStore("chatMessageLimiter", u)
            /\ IF ~limiterResult("chatMessageLimiter", u).next
                 THEN /\ mres' = [status |-> 429, response |-> <<>>]
                      /\ mpc' = "done"
               ELSE IF trim(content) = <<>> \/ Len(content) > 1000
                 THEN /\ mres' = [status |-> 400, response |-> <<>>]
                      /\ mpc' = "done"
               ELSE IF ~(/\ sessionId = chat.sessionId
                         /\ u = chat.userId)
                 THEN /\ mres' = [status |-> 404, response |-> <<>>]
                      /\ mpc' = "done"
               ELSE /\ mres' = noMessageResponse
                    /\ mpc' = "addUser"
  /\ UNCHANGED <<ageCall, now, limiterArgs, callLog, chkVars, chat>>

\* a request arrives: auth, chatMessageLimiter, the validators, Chat.findOne
MessageRequest(u, sessionId, content) ==
  /\ mpc \in {"idle", "done"}
  /\ chatRequests < MaxChatRequests
  /\ Len(chat.messages) + 2 <= MaxMessages
  /\ chatRequests' = chatRequests + 1
  /\ chatCompletion' = noCompletion
  /\ chatProviderCalls' = 0
  /\ aiResponse' = <<>>
  /\ insightUpdates' = 0
  /\ validation' = noValidation
  /\ mreq' = [user |-> u, sessionId |-> sessionId, content |-> trim(content)]
  /\ IF u = NoUser
       THEN /\ mres' = [status |-> 401, response |-> <<>>]
            /\ mpc' = "done"
            /\ UNCHANGED userActions
       ELSE /\ userActions' = limiterStore("chatMessageLimiter", u)
            /\ IF ~limiterResult("chatMessageLimiter", u).next
                 THEN /\ mres' = [status |-> 429, response |-> <<>>]
                      /\ mpc' = "done"
               ELSE IF trim(content) = <<>> \/ Len(content) > 1000
                 THEN /\ mres' = [status |-> 400, response |-> <<>>]
                      /\ mpc' = "done"
               ELSE IF ~(/\ sessionId = chat.sessionId
                         /\ u = chat.userId
                         /\ chat.status \in {"active", "paused"})
                 THEN /\ mres' = [status |-> 404, response |-> <<>>]
                      /\ mpc' = "done"
               ELSE /\ mres' = noMessageResponse
                    /\ mpc' = "addUser"
  /\ UNCHANGED <<ageCall, now, limiterArgs, callLog, chkVars, chat>>

\* the handler going on to the answer without chat.addMessage('user', content)
AddUserMessageSkipped ==
  /\ mpc = "addUser"
  /\ mpc' = "answer"
  /\ UNCHANGED <<chat, mres>>
  /\ UNCHANGED <<ageCall, limVars, chkVars, validation, mreq, chatCompletion, chatProviderCalls,
                 aiResponse, insightUpdates, chatRequests>>

\* await chat.addMessage('user', content)
AddUserMessage ==
  /\ mpc = "addUser"
  /\ LET added == addMessage(chat, "user", mreq.content)
     IN IF added.saved
          THEN /\ chat' = [added.doc EXCEPT !.status = chat.status]
               /\ mpc' = "answer"
               /\ UNCHANGED mres
          ELSE /\ mres' = [status |-> 500, response |-> <<>>]
               /\ mpc' = "done"
               /\ UNCHANGED chat
  /\ UNCHANGED <<ageCall, limVars, chkVars, validation, mreq, chatCompletion, chatProviderCalls,
                 aiResponse, insightUpdates, chatRequests>>

\* the fixed answer to a question about the author: addMessage, then
\* updateChatInsights, then the response
MakerReply ==
  /\ mpc = "answer"
  /\ asksWhoMade(mreq.content)
  /\ LET added == addMessage(chat, "assistant", makerAnswer)
     IN IF added.saved
          THEN /\ chat' = updateChatInsights(added.doc)
               /\ insightUpdates' = insightUpdates + 1
               /\ mres' = [status |-> 200, response |-> makerAnswer]
          ELSE /\ mres' = [status |-> 500, response |-> <<>>]
               /\ UNCHANGED <<chat, insightUpdates>>
  /\ mpc' = "done"
  /\ UNCHANGED <<ageCall, limVars, chkVars, validation, mreq, chatCompletion, chatProviderCalls,
                 aiResponse, chatRequests>>

\* await aiService.chatResponse(content, messages, userContext); c is what
\* the provider call yields
ChatCallModel(c) ==
  /\ mpc = "answer"
  /\ ~asksWhoMade(mreq.content)
  /\ chatCompletion' = c
  /\ chatProviderCalls' = chatProviderCalls + 1
  /\ aiResponse' = chatResponse(mreq.content, chat.messages, [age |-> 0], c)
  /\ mpc' = "reply"
  /\ UNCHANGED <<ageCall, limVars, chkVars, validation, chat, mreq, insightUpdates, mres,
                 chatRequests>>

\* validateResponse, addMessage('assistant', finalResponse),
\* updateChatInsights, the response
ChatReply ==
  /\ mpc = "reply"
  /\ validation' = validationOf(aiResponse)
  /\ LET finalResponse == IF validation'.isValid THEN aiResponse
                          ELSE validation'.sanitizedResponse
         added == addMessage(chat, "assistant", finalResponse)
     IN IF added.saved
          THEN /\ chat' = updateChatInsights(added.doc)
               /\ insightUpdates' = insightUpdates + 1
               /\ mres' = [status |-> 200, response |-> finalResponse]
          ELSE /\ mres' = [status |-> 500, response |-> <<>>]
               /\ UNCHANGED <<chat, insightUpdates>>
  /\ mpc' = "done"
  /\ UNCHANGED <<ageCall, limVars, chkVars, mreq, chatCompletion, chatProviderCalls, aiResponse,
                 chatRequests>>

\* PUT /:sessionId by the owner: Chat.findOneAndUpdate sets the status
UpdateSession(status) ==
  /\ mpc # "off"
  /\ chat.status # status
  /\ chat' = [chat EXCEPT !.status = status]
  /\ UNCHANGED <<ageCall, limVars, chkVars, validation, mpc, mreq, chatCompletion,
                 chatProviderCalls, aiResponse, insightUpdates, mres, chatRequests>>

(***************************************************************************)
(* Specifications.                                                         *)
(***************************************************************************)
\* the arguments of the limiters of the routes; those of the limiter under
\* test are (m, w)
limiterArgsWith(m, w) ==
  [l \in Limiters |->
     IF l = "symptomCheckLimiter" THEN symptomCheckLimiter
     ELSE IF l = "chatMessageLimiter" THEN chatMessageLimiter
     ELSE [maxActions |-> m, windowMs |-> w]]

\* the limiter alone, created with arbitrary arguments
InitLimiter ==
  /\ ageCall = noAgeCall
  /\ InitLimiterVars
  /\ \E m \in 1..MaxMaxActions, w \in 1..MaxWindowMs :
       limiterArgs = limiterArgsWith(m, w)
  /\ InitCheckVars
  /\ InitChatVars
  /\ apiKey = FALSE
  /\ cpc = "off"
  /\ mpc = "off"

NextLimiter ==
  \/ \E u \in Users \cup {NoUser} : LimiterCall(u)
  \/ Tick

LimiterSpec == InitLimiter /\ [][NextLimiter]_vars

\* the symptom check route, with and without model credential
InitCheck ==
  /\ ageCall = noAgeCall
  /\ InitLimiterVars
  /\ limiterArgs = limiterArgsWith(1, 1)
  /\ InitCheckVars
  /\ InitChatVars
  /\ apiKey \in BOOLEAN
  /\ cpc = "idle"
  /\ mpc = "off"

NextCheck ==
  \/ \E u \in CheckClients, symptoms \in SymptomReports, userContext \in UserContexts :
       CheckRequest(u, symptoms, userContext)
  \/ \E c \in AnalysisCompletions : CheckAnalyze(c)
  \/ CheckRespond

CheckSpec == InitCheck /\ [][NextCheck]_vars

\* the chat routes on one session, whose owner has already sent all but two
\* of the messages chatMessageLimiter allows in the current minute
InitChat ==
  /\ ageCall = noAgeCall
  /\ now = 0
  /\ callLog = <<>>
  /\ userActions = [l \in Limiters |-> [u \in Users |->
                      IF l = "chatMessageLimiter" /\ u = "u1"
                        THEN [i \in 1..(chatMessageLimiter.maxActions - 2) |-> 0]
                        ELSE <<>>]]
  /\ limiterArgs = limiterArgsWith(1, 1)
  /\ InitCheckVars
  /\ InitChatVars
  /\ apiKey = TRUE
  /\ cpc = "off"
  /\ mpc = "idle"

NextChat ==
  \/ \E r \in MessageRequests : MessageRequest(r.user, r.sessionId, r.content)
  \/ AddUserMessage
  \/ MakerReply
  \/ \E c \in ChatCompletions : ChatCallModel(c)
  \/ ChatReply
  \/ \E status \in SessionStatuses : UpdateSession(status)

ChatSpec == InitChat /\ [][NextChat]_vars

\* calculateAge on its own
InitAge ==
  /\ InitLimiterVars
  /\ limiterArgs = limiterArgsWith(1, 1)
  /\ InitCheckVars
  /\ InitChatVars
  /\ ageCall = noAgeCall
  /\ apiKey = FALSE
  /\ cpc = "off"
  /\ mpc = "off"

NextAge ==
  \E dateOfBirth \in BirthDates, today \in EvalDates, offsetHours \in TimezoneOffsets :
    CalculateAge(dateOfBirth, today, offsetHours)

AgeSpec == InitAge /\ [][NextAge]_vars

\* the server: a run exercises the symptom check route or the chat routes
\* (the two share no state: separate limiter instances and collections)
Init == InitCheck \/ InitChat

Next == NextCheck \/ NextChat

Spec == Init /\ [][Next]_vars

(***************************************************************************)
(* Claims about the rate limiter.                                          *)
(***************************************************************************)
\* accepted earlier calls of the same user that are less than windowMs old
\* at the time of call i
acceptedInWindowBefore(i) ==
  { j \in 1..(i - 1) :
      /\ callLog[j].user = callLog[i].user
      /\ callLog[j].next
      /\ callLog[i].time - callLog[j].time < limiterArgs["limiter"].windowMs }

\* C5: for a fixed user, at most maxActions calls are accepted in any window
\* of windowMs consecutive milliseconds, and a call is rejected exactly while
\* maxActions accepted calls are less than windowMs old (rejected calls do
\* not count): it is accepted again once the oldest of them has aged out.
C5_SlidingWindow ==
  /\ \A u \in Users, t \in 0..MaxTime :
       Cardinality({ i \in DOMAIN callLog :
                       /\ callLog[i].user = u
                       /\ callLog[i].next
                       /\ t <= callLog[i].time
                       /\ callLog[i].time < t + limiterArgs["limiter"].windowMs })
         <= limiterArgs["limiter"].maxActions
  /\ \A i \in DOMAIN callLog :
       callLog[i].user \in Users =>
         (callLog[i].next <=>
            Cardinality(acceptedInWindowBefore(i)) < limiterArgs["limiter"].maxActions)

\* C5 witness: a user filled the window, was rejected twice, and was accepted
\* again later
C5_Witness ==
  \E i, j, k \in DOMAIN callLog :
    /\ i < j /\ j < k
    /\ callLog[i].user \in Users
    /\ callLog[j].user = callLog[i].user /\ callLog[k].user = callLog[i].user
    /\ ~callLog[i].next /\ ~callLog[j].next /\ callLog[k].next
    /\ Cardinality(acceptedInWindowBefore(i)) = limiterArgs["limiter"].maxActions
    /\ limiterArgs["limiter"].maxActions > 1

(***************************************************************************)
(* Claims about the symptom check.                                         *)
(***************************************************************************)
\* C1: whatever the model call yields, the Assessment analyzeSymptoms hands
\* to the symptom check handler, and the one the handler answers with, has
\* at least one possibleConditions entry.
C1_AssessmentHasCondition ==
  /\ cpc = "respond" => Len(aiAssessment.possibleConditions) >= 1
  /\ cres.status = 201 => Len(cres.assessment.possibleConditions) >= 1

\* C2: when the provider call fails, analyzeSymptoms returns what
\* ruleBasedAssessment produces for the same symptoms, and the request is
\* answered with that Assessment, not with an error.
C2_ProviderFailureFallsBack ==
  checkCompletion.kind = "error" =>
    /\ cpc = "respond" =>
         aiAssessment = ruleBasedAssessment(creq.symptoms, creq.userContext)
    /\ cpc = "done" =>
         /\ cres.status = 201
         /\ cres.assessment = ruleBasedAssessment(creq.symptoms, creq.userContext)

\* C2 witness: a request whose provider call failed has been answered
C2_Witness ==
  /\ checkCompletion.kind = "error"
  /\ providerCalls = 1
  /\ cpc = "done"
  /\ cres.status = 201

\* C3: without credential the provider is never called, and a call returns
\* the Assessment an earlier call returned for equal symptoms and context.
C3_NoCredentialDeterministic ==
  ~apiKey =>
    /\ providerCalls = 0
    /\ checkCompletion = noCompletion
    /\ path \in {"none", "noKey"}
    /\ (/\ path = "noKey"
        /\ refCall.made
        /\ refCall.symptoms = creq.symptoms
        /\ refCall.userContext = creq.userContext)
         => aiAssessment = refCall.value

\* C3 witness: two calls without credential had equal symptoms and context
C3_Witness ==
  /\ ~apiKey
  /\ path = "noKey"
  /\ cpc = "done"
  /\ cres.status = 201
  /\ refCall.made
  /\ refCall.symptoms = creq.symptoms
  /\ refCall.userContext = creq.userContext

\* C4: every possibleConditions entry of an Assessment analyzeSymptoms
\* returned has probability and confidence within 0..100.
C4_ScoresWithinRange ==
  path # "none" =>
    \A i \in 1..Len(aiAssessment.possibleConditions) :
      /\ aiAssessment.possibleConditions[i].probability \in 0..100
      /\ aiAssessment.possibleConditions[i].confidence \in 0..100

(***************************************************************************)
(* Claims about the response validator.                                    *)
(***************************************************************************)
\* some denylisted phrase occurs in the lower-cased text
holdsDenylistedPhrase(text) ==
  LET t == toLowerCase(chars(text))
  IN \E phrase \in dangerousKeywords :
       \E i \in 1..(Len(t) - Len(phrase) + 1) :
         \A j \in 1..Len(phrase) : t[i + j - 1] = phrase[j]

\* C6: validateResponse returns isValid = FALSE with the fixed safe sentence
\* exactly when the lower-cased text holds a denylisted phrase, and otherwise
\* isValid = TRUE with the text unchanged.
C6_ValidateResponse ==
  validation.called =>
    IF holdsDenylistedPhrase(validation.response)
      THEN /\ ~validation.isValid
           /\ validation.sanitizedResponse = safeRedirectSentence
      ELSE /\ validation.isValid
           /\ validation.sanitizedResponse = validation.response

\* C6 witness: a text with a capitalized denylisted phrase was rejected
C6_Witness ==
  /\ validation.called
  /\ ~validation.isValid
  /\ validation.response # toLowerCase(validation.response)
  /\ validation.sanitizedResponse = safeRedirectSentence

\* C7: no generalAdvice answered or stored by a symptom check, and no
\* assistant reply stored in the session or answered by the message route,
\* holds a denylisted phrase.
C7_NoUnsafeTextDelivered ==
  /\ cres.status = 201 => ~holdsDenylistedPhrase(cres.assessment.generalAdvice)
  /\ symptomRecord.saved => ~holdsDenylistedPhrase(symptomRecord.aiAssessment.generalAdvice)
  /\ \A i \in 1..Len(chat.messages) :
       chat.messages[i].role = "assistant" =>
         ~holdsDenylistedPhrase(chat.messages[i].content)
  /\ mres.status = 200 => ~holdsDenylistedPhrase(mres.response)

\* C7 witness: the static fallback embedded raw model text with a denylisted
\* phrase, and the symptom check answered with the safe sentence instead
C7_Witness ==
  /\ path = "fallback"
  /\ holdsDenylistedPhrase(checkCompletion.content)
  /\ cres.status = 201
  /\ symptomRecord.saved
  /\ cres.assessment.generalAdvice = safeRedirectSentence

(***************************************************************************)
(* Claims about the chat exchange.                                         *)
(***************************************************************************)
\* C8: whatever the model call of a chat exchange yields, chatResponse
\* returns a non-empty reply and the exchange completes with that reply.
C8_ReplyNonEmpty ==
  /\ mpc = "reply" => aiResponse # <<>>
  /\ (mpc = "done" /\ chatProviderCalls > 0) =>
       /\ mres.status = 200
       /\ mres.response # <<>>

\* the lower-cased content asks who made, built or created the application,
\* or names the developer of the site, app, application or website
asksAboutMaker(content) ==
  LET t == toLowerCase(content)
      has(phrase) == \E i \in 1..(Len(t) - Len(phrase) + 1) :
                       \A j \in 1..Len(phrase) : t[i + j - 1] = phrase[j]
  IN \/ has(whoMade) \/ has(whoBuilt) \/ has(whoCreated)
     \/ (has(developer) /\ (has(site) \/ has(app) \/ has(application) \/ has(website)))

\* C9: an exchange whose user message asks about the maker never calls the
\* provider, and completes with the fixed attribution string as the stored
\* and answered reply after one run of the insight update.
C9_MakerQuestion ==
  asksAboutMaker(mreq.content) =>
    /\ chatProviderCalls = 0
    /\ mpc # "reply"
    /\ (mpc = "done" /\ mres.status \notin {400, 401, 404, 429}) =>
         /\ mres.status = 200
         /\ mres.response = makerAnswer
         /\ insightUpdates = 1
         /\ chat.messages[Len(chat.messages)] = [role |-> "assistant", content |-> makerAnswer]
         /\ chat.aiInsights.primaryConcern # ""

\* C9 witness: 'Who Made this app' was answered
C9_Witness ==
  /\ mreq.content = whoMadeThisApp
  /\ mpc = "done"
  /\ mres.status = 200
  /\ mres.response = makerAnswer

\* C10: once context.urgencyLevel is high, no step changes it.
C10_UrgencyStaysHigh ==
  [][chat.context.urgencyLevel = "high" => chat'.context.urgencyLevel = "high"]_vars

\* C10 witness: 'severe chest pain' raised the urgency and a later neutral
\* exchange left it high
C10_Witness ==
  /\ Len(chat.messages) = 4
  /\ chat.messages[1] = [role |-> "user", content |-> severeChestPain]
  /\ chat.messages[3] = [role |-> "user", content |-> hi]
  /\ chat.context.urgencyLevel = "high"

(***************************************************************************)
(* Claims about the parse chain.                                           *)
(***************************************************************************)
\* the response text: prose, the serialized JSON object b, prose
wrappedJson(before, b, after) == before \o <<"{", b, "}">> \o after

\* C11 as stated: whatever prose stands before and after a serialized
\* Assessment J, analyzeSymptoms returns J and not the static fallback.
C11_AnyProseExtracted ==
  \A before \in ProseBefore, after \in ProseAfter, b \in DOMAIN JsonBody :
    (/\ cpc = "respond"
     /\ checkCompletion = [kind |-> "content", content |-> wrappedJson(before, b, after)])
      => /\ path # "fallback"
         /\ aiAssessment = JsonBody[b]

\* C11 amended: when the prose before J holds no '{' and the prose after J
\* holds no '}', analyzeSymptoms returns J and not the static fallback.
C11_BraceFreeProseExtracted ==
  \A before \in ProseBefore, after \in ProseAfter, b \in DOMAIN JsonBody :
    (/\ cpc = "respond"
     /\ checkCompletion = [kind |-> "content", content |-> wrappedJson(before, b, after)]
     /\ \A i \in 1..Len(before) : before[i] # "{"
     /\ \A i \in 1..Len(after) : after[i] # "}")
      => /\ path # "fallback"
         /\ aiAssessment = JsonBody[b]

\* C11 witness: 'Sure! {...} Hope that helps.' was extracted by the slice
C11_Witness ==
  /\ cpc = "respond"
  /\ checkCompletion.kind = "content"
  /\ checkCompletion.content =
       wrappedJson(<<"S","u","r","e","!"," ">>, "jsonAssessment",
                   <<" ","H","o","p","e"," ","t","h","a","t"," ","h","e","l","p","s",".">>)
  /\ path = "slice"
  /\ aiAssessment = JsonBody.jsonAssessment

(***************************************************************************)
(* Claims about calculateAge.                                              *)
(***************************************************************************)
\* C12: for a date of birth and an evaluation date on or after it,
\* calculateAge returns the difference of the years, less one exactly when
\* the (month, day) of the evaluation date is before the (month, day) of the
\* date of birth: 2000-03-15 gives 23 on 2024-03-14 and 24 on 2024-03-15.
C12_CalendarAge ==
  ageCall.made =>
    LET birth == ageCall.dateOfBirth
        today == ageCall.today
        before == \/ today.month < birth.month
                  \/ today.month = birth.month /\ today.date < birth.date
    IN ageCall.age = (today.year - birth.year) - (IF before THEN 1 ELSE 0)

(***************************************************************************)
(* Claims about the session document.                                      *)
(***************************************************************************)
\* C13: the status of a session changes only out of active or paused: once
\* it is completed or archived, no message request and no session update
\* changes it again.
C13_TerminalStatus ==
  [][chat.status \in {"completed", "archived"} => chat'.status = chat.status]_vars

\* C14: every step leaves the messages the session held as a prefix of the
\* messages it holds afterwards: none is edited, reordered or removed.
C14_MessagesAppendOnly ==
  [][/\ Len(chat.messages) <= Len(chat'.messages)
     /\ SubSeq(chat'.messages, 1, Len(chat.messages)) = chat.messages]_vars

\* C14 witness: two exchanges were stored, the insights were recomputed and
\* the session was paused by a session update
C14_Witness ==
  /\ Len(chat.messages) = 4
  /\ chat.messages[1].role = "user" /\ chat.messages[2].role = "assistant"
  /\ chat.messages[3].role = "user" /\ chat.messages[4].role = "assistant"
  /\ chat.aiInsights.primaryConcern # ""
  /\ chat.status = "paused"

(***************************************************************************)
(* Claims about rejected requests.                                         *)
(***************************************************************************)
\* C16: a request the rate limiter rejects ends with status 429 and nothing
\* downstream runs for it: no provider call, no analysis, no stored
\* assessment record, no message appended to the session, no insight update.
C16_RejectedRunsNothing ==
  [][/\ cres'.status = 429 =>
          /\ cpc' = "done"
          /\ providerCalls' = 0
          /\ path' = "none"
          /\ ~symptomRecord'.saved
     /\ mres'.status = 429 =>
          /\ mpc' = "done"
          /\ chatProviderCalls' = 0
          /\ insightUpdates' = 0
          /\ chat'.messages = chat.messages]_vars

\* C16 witness: the twenty-first message of the minute was rejected after an
\* earlier one had been answered
C16_Witness ==
  /\ mres.status = 429
  /\ mpc = "done"
  /\ Len(userActions["chatMessageLimiter"]["u1"]) = chatMessageLimiter.maxActions
  /\ Len(chat.messages) = 2

\* C17: a limiter call at time now drops exactly the timestamps older than
\* now - windowMs (one that is exactly windowMs old is kept), rejects when
\* maxActions or more remain, and otherwise appends now and accepts.
C17_LimiterStep ==
  [][Len(callLog') = Len(callLog) + 1 =>
       LET call == callLog'[Len(callLog')]
           u == call.user
           notOlder(time) == time >= now - limiterArgs["limiter"].windowMs
           remaining == SelectSeq(userActions["limiter"][u], notOlder)
       IN u \in Users =>
            IF Len(remaining) >= limiterArgs["limiter"].maxActions
              THEN /\ ~call.next
                   /\ userActions'["limiter"][u] = remaining
              ELSE /\ call.next
                   /\ userActions'["limiter"][u] = Append(remaining, now)]_vars

(***************************************************************************)
(* Claims about the fallback Assessments.                                  *)
(***************************************************************************)
\* C18: when the model response parses neither directly nor after the brace
\* slice, analyzeSymptoms returns an Assessment with exactly one
\* possibleConditions entry, exactly one recommendation, of type
\* consultation, and, when the response is not empty, the response itself
\* as generalAdvice.
C18_StaticFallback ==
  (cpc = "respond" /\ path = "fallback") =>
    /\ Len(aiAssessment.possibleConditions) = 1
    /\ Len(aiAssessment.recommendations) = 1
    /\ aiAssessment.recommendations[1].type = "consultation"
    /\ contentOf(checkCompletion) # <<>> =>
         aiAssessment.generalAdvice = checkCompletion.content

\* C18 witness: 'Note {' followed by a JSON object parsed in neither way and
\* became the generalAdvice
C18_Witness ==
  /\ cpc = "respond"
  /\ path = "fallback"
  /\ checkCompletion.kind = "content"
  /\ checkCompletion.content = wrappedJson(<<"N","o","t","e"," ","{">>, "jsonAssessment", <<>>)
  /\ aiAssessment.generalAdvice = checkCompletion.content

\* C19: a placeholder condition of an Assessment analyzeSymptoms returns
\* ('General symptoms' of the static fallback, 'Non-specific presentation'
\* of the heuristic when no rule matches) has riskLevel low.
C19_PlaceholderLowRisk ==
  (cpc = "respond" /\ path \in {"fallback", "noKey", "catch"}) =>
    \A i \in 1..Len(aiAssessment.possibleConditions) :
      aiAssessment.possibleConditions[i].condition
          \in {"General symptoms", "Non-specific presentation"}
        => aiAssessment.possibleConditions[i].riskLevel = "low"

(***************************************************************************)
(* Claims about a failed chat provider call.                               *)
(***************************************************************************)
\* C20: when the provider call of chatResponse fails, chatResponse returns
\* the fixed apologetic sentence, and the exchange stores that sentence as
\* the assistant reply and answers with it.
C20_ChatFailureSentence ==
  chatCompletion.kind = "error" =>
    /\ mpc = "reply" => aiResponse = chatFailureSentence
    /\ mpc = "done" =>
         /\ aiResponse = chatFailureSentence
         /\ mres = [status |-> 200, response |-> chatFailureSentence]
         /\ chat.messages[Len(chat.messages)] =
              [role |-> "assistant", content |-> chatFailureSentence]
         /\ chat.messages[Len(chat.messages) - 1] =
              [role |-> "user", content |-> mreq.content]

\* C20 witness: 'hi' was answered with the fixed sentence after the provider
\* call failed
C20_Witness ==
  /\ chatCompletion.kind = "error"
  /\ chatProviderCalls = 1
  /\ mpc = "done"
  /\ mreq.content = hi
  /\ mres.response = chatFailureSentence

(***************************************************************************)
(* Claims about urgency and insights.                                      *)
(***************************************************************************)
\* some word of the set occurs in the lower-cased text
holdsWord(text, words) ==
  LET t == toLowerCase(text)
  IN \E word \in words :
       \E i \in 1..(Len(t) - Len(word) + 1) :
         \A j \in 1..Len(word) : t[i + j - 1] = word[j]

\* positions of the user messages among the last five messages
recentUserPositions(messages) ==
  { i \in 1..Len(messages) : i > Len(messages) - 5 /\ messages[i].role = "user" }

\* the five words the claims call emergency keywords
emergencyWords ==
  { <<"e","m","e","r","g","e","n","c","y">>, <<"u","r","g","e","n","t">>,
    <<"i","m","m","e","d","i","a","t","e">>, <<"s","e","v","e","r","e">>,
    <<"c","r","i","t","i","c","a","l">> }

\* C21: when the most recent user message among the last five messages of
\* the session holds an emergency keyword, in any letter case, the context
\* has urgencyLevel high and emotionalState urgent.
C21_EmergencyKeywordRaises ==
  \A i \in recentUserPositions(chat.messages) :
    (/\ \A j \in recentUserPositions(chat.messages) : j <= i
     /\ holdsWord(chat.messages[i].content, emergencyWords))
      => /\ chat.context.urgencyLevel = "high"
         /\ chat.context.emotionalState = "urgent"

\* C21 witness: 'Is it URGENT' is the latest user message and has been
\* answered
C21_Witness ==
  /\ Len(chat.messages) = 2
  /\ chat.messages[1] = [role |-> "user", content |-> isItUrgent]
  /\ chat.messages[2].role = "assistant"
  /\ chat.context = [emotionalState |-> "urgent", urgencyLevel |-> "high"]

\* the five words the claims call pain keywords
painWords ==
  { <<"p","a","i","n">>, <<"h","u","r","t">>, <<"a","c","h","e">>,
    <<"s","o","r","e">>, <<"d","i","s","c","o","m","f","o","r","t">> }

\* C22: in a session whose context.urgencyLevel is low, adding a user message
\* with a pain keyword and no emergency keyword sets context.urgencyLevel to
\* medium, and adding a user message with neither kind of keyword leaves
\* urgencyLevel and emotionalState as they were.
C22_PainKeywordMedium ==
  [][(/\ Len(chat'.messages) = Len(chat.messages) + 1
      /\ chat'.messages[Len(chat'.messages)].role = "user"
      /\ chat.context.urgencyLevel = "low")
       => LET content == chat'.messages[Len(chat'.messages)].content
          IN IF holdsWord(content, emergencyWords) THEN TRUE
             ELSE IF holdsWord(content, painWords)
               THEN chat'.context.urgencyLevel = "medium"
             ELSE chat'.context = chat.context]_vars

(***************************************************************************)
(* Claims about the keys of the rate limiter.                              *)
(***************************************************************************)
\* C23: a limiter call of one user leaves the timestamp lists of every other
\* user and of every other limiter instance unchanged, and it is accepted
\* exactly when fewer than maxActions timestamps of the user's own list at
\* this instance are less than windowMs old.
C23_LimiterKeysIndependent ==
  [][Len(callLog') = Len(callLog) + 1 =>
       LET call == callLog'[Len(callLog')]
           own == IF call.user \in Users THEN userActions["limiter"][call.user] ELSE <<>>
           recent == { i \in DOMAIN own : now - own[i] < limiterArgs["limiter"].windowMs }
       IN /\ \A l \in Limiters, v \in Users :
               (l # "limiter" \/ v # call.user) => userActions'[l][v] = userActions[l][v]
          /\ call.user \in Users =>
               (call.next <=> Cardinality(recent) < limiterArgs["limiter"].maxActions)]_vars

\* C23 witness: at one instant a user was rejected, and another user was
\* accepted after that
C23_Witness ==
  \E i, j \in DOMAIN callLog :
    /\ i < j
    /\ callLog[i].user \in Users /\ callLog[j].user \in Users
    /\ callLog[i].user # callLog[j].user
    /\ callLog[i].time = callLog[j].time
    /\ ~callLog[i].next /\ callLog[j].next
    /\ userActions["limiter"][callLog[i].user] # <<>>
    /\ userActions["limiter"][callLog[j].user] # <<>>

\* C24: whatever the order of the calls that reach the limiter for one key,
\* the calls accepted for that key within any window of windowMs
\* milliseconds are never more than maxActions + 1.
C24_OverAdmissionBounded ==
  \A u \in Users, t \in 0..MaxTime :
    LET accepted == { i \in DOMAIN callLog :
                        /\ callLog[i].user = u
                        /\ callLog[i].next
                        /\ callLog[i].time \in t..(t + limiterArgs["limiter"].windowMs - 1) }
    IN Cardinality(accepted) <= limiterArgs["limiter"].maxActions + 1

\* C24 witness: three calls for one key at the same instant, the limit
\* reached by the first two
C24_Witness ==
  \E u \in Users : \E i, j, k \in DOMAIN callLog :
    /\ i < j /\ j < k
    /\ callLog[i].user = u /\ callLog[j].user = u /\ callLog[k].user = u
    /\ callLog[i].time = callLog[k].time
    /\ limiterArgs["limiter"].maxActions = 2
    /\ callLog[i].next /\ callLog[j].next /\ ~callLog[k].next

(***************************************************************************)
(* Claims about the heuristic assessment.                                  *)
(***************************************************************************)
\* the weights the claims give to the severities
severityWeight(s) ==
  IF s.severity = "severe" THEN 3 ELSE IF s.severity = "moderate" THEN 2 ELSE 1

RECURSIVE sumOfWeights(_, _)
sumOfWeights(symptoms, n) ==
  IF n = 0 THEN 0 ELSE severityWeight(symptoms[n]) + sumOfWeights(symptoms, n - 1)

greatestWeight(symptoms) ==
  IF \E i \in DOMAIN symptoms : severityWeight(symptoms[i]) = 3 THEN 3
  ELSE IF \E i \in DOMAIN symptoms : severityWeight(symptoms[i]) = 2 THEN 2
  ELSE 1

\* the positions in the table of the rules that share a name with the report
sharingRules(symptoms) ==
  { k \in DOMAIN rules :
      \E i \in DOMAIN symptoms : toLowerCase(symptoms[i].name) \in rules[k].match }

\* entry c carries the scores of rank i for a rule of base score riskBase
scoredAtRank(c, riskBase, i, symptoms) ==
  LET probability == riskBase + greatestWeight(symptoms) * 10 + i * 5
      confidence == 40 + sumOfWeights(symptoms, Len(symptoms)) * 8 - i * 5
  IN /\ c.probability = (IF probability > 90 THEN 90 ELSE probability)
     /\ c.confidence = (IF confidence > 90 THEN 90 ELSE confidence)
     /\ c.riskLevel = (IF c.probability >= 70 THEN "high"
                       ELSE IF c.probability >= 45 THEN "medium" ELSE "low")

\* whenever analyzeSymptoms returned what ruleBasedAssessment produced
ruleBased == path \in {"noKey", "catch"}

\* C25: the possibleConditions of ruleBasedAssessment are the first up to
\* three rules of the table, in table order, that share a symptom name with
\* the report, or the single entry 'Non-specific presentation' of base score
\* 15 when none does; the entry at rank i has probability
\* min(90, riskBase + maxSeverity*10 + i*5), confidence
\* min(90, 40 + totalSeverity*8 - i*5) and riskLevel high from 70, medium
\* from 45, else low, with mild = 1, moderate = 2, severe = 3.
C25_RankedConditions ==
  ruleBased =>
    LET conditions == aiAssessment.possibleConditions
        sharing == sharingRules(creq.symptoms)
    IN IF sharing = {}
         THEN /\ Len(conditions) = 1
              /\ conditions[1].condition = "Non-specific presentation"
              /\ scoredAtRank(conditions[1], 15, 0, creq.symptoms)
         ELSE /\ Len(conditions) = (IF Cardinality(sharing) > 3 THEN 3
                                    ELSE Cardinality(sharing))
              /\ \A i \in DOMAIN conditions :
                   \E k \in sharing :
                     /\ Cardinality({ k2 \in sharing : k2 < k }) = i - 1
                     /\ conditions[i].condition = rules[k].condition
                     /\ scoredAtRank(conditions[i], rules[k].riskBase, i - 1,
                                     creq.symptoms)

\* C25 witness: a report that shares names with four rules was assessed by
\* the heuristic; the third entry reaches the cap
C25_Witness ==
  /\ path = "catch"
  /\ cpc = "done"
  /\ Cardinality(sharingRules(creq.symptoms)) = 4
  /\ Len(cres.assessment.possibleConditions) = 3
  /\ cres.assessment.possibleConditions[2].condition = "Migraine"
  /\ cres.assessment.possibleConditions[2].probability = 60
  /\ cres.assessment.possibleConditions[3].probability = 90

\* the positions of the recommendations of one type
ofType(recommendations, type) ==
  { i \in DOMAIN recommendations : recommendations[i].type = type }

\* C26: the recommendations of ruleBasedAssessment hold exactly one
\* consultation entry, of priority high when maxSeverity >= 2 and medium
\* otherwise, exactly one supportive care entry of type lifestyle, and an
\* emergency entry of priority urgent exactly when maxSeverity is 3 or a
\* symptom is named 'chest pain' or 'shortness of breath'.
C26_Recommendations ==
  ruleBased =>
    LET recommendations == aiAssessment.recommendations
        named(n) == \E i \in DOMAIN creq.symptoms : toLowerCase(creq.symptoms[i].name) = n
    IN /\ Cardinality(ofType(recommendations, "consultation")) = 1
       /\ \A i \in ofType(recommendations, "consultation") :
            recommendations[i].priority =
              (IF greatestWeight(creq.symptoms) >= 2 THEN "high" ELSE "medium")
       /\ Cardinality(ofType(recommendations, "lifestyle")) = 1
       /\ \A i \in ofType(recommendations, "lifestyle") :
            recommendations[i].title = "Supportive care"
       /\ (\E i \in ofType(recommendations, "emergency") :
             recommendations[i].priority = "urgent")
            <=> \/ greatestWeight(creq.symptoms) = 3
                \/ named(chestPain)
                \/ named(shortnessOfBreath)
       /\ \A i \in ofType(recommendations, "emergency") :
            recommendations[i].priority = "urgent"

\* C26 witness: a mild shortness of breath was assessed by the heuristic:
\* emergency entry, consultation of priority medium, supportive care
C26_Witness ==
  /\ ruleBased
  /\ cpc = "done"
  /\ creq.symptoms = << [name |-> shortnessOfBreath, severity |-> "mild"] >>
  /\ Len(cres.assessment.recommendations) = 3
  /\ cres.assessment.recommendations[1].type = "emergency"
  /\ cres.assessment.recommendations[2].priority = "medium"
  /\ cres.assessment.recommendations[3].type = "lifestyle"

(***************************************************************************)
(* Claims about the message exchange.                                      *)
(***************************************************************************)
\* C27: a message request that arrives while the session is completed or
\* archived changes nothing of the session (no message appended, context
\* and insights unchanged), makes no provider call and ends at once; when
\* it is authenticated, within the rate limit and has a content, its answer
\* is 404.
C27_TerminalSessionNotFound ==
  [][(/\ chatRequests' = chatRequests + 1
      /\ chat.status \in {"completed", "archived"})
       => /\ chat' = chat
          /\ mpc' = "done"
          /\ chatProviderCalls' = 0
          /\ insightUpdates' = 0
          /\ (/\ mreq'.user # NoUser
              /\ limiterResult("chatMessageLimiter", mreq'.user).next
              /\ mreq'.content # <<>>)
               => mres'.status = 404]_vars

\* C27 witness: the owner's message to the completed session, which holds an
\* earlier exchange, was answered 404
C27_Witness ==
  /\ chat.status = "completed"
  /\ Len(chat.messages) = 2
  /\ mreq.user = chat.userId
  /\ mreq.sessionId = chat.sessionId
  /\ mreq.content = kneePain
  /\ mpc = "done"
  /\ mres.status = 404

\* the request of user u took one slot of limiter instance l in this step
slotTaken(l, u) ==
  LET before == userActions[l][u]
      after == userActions'[l][u]
      recent(list) == { i \in DOMAIN list : now - list[i] < limiterArgs[l].windowMs }
  IN /\ after # <<>>
     /\ after[Len(after)] = now
     /\ Cardinality(recent(after)) = Cardinality(recent(before)) + 1

\* C28: the limiter runs before the validators and the session lookup: a
\* request of an authenticated user that the limiter accepts takes one slot
\* of the user's window, also when it is then answered 400 or 404, and a
\* request answered 400 or 404 ends without provider call.
C28_RejectedRequestTakesSlot ==
  [][/\ (/\ cpc \in {"idle", "done"}
         /\ creq'.user # NoUser
         /\ cres'.status # 429)
          => /\ slotTaken("symptomCheckLimiter", creq'.user)
             /\ cres'.status = 400 => (cpc' = "done" /\ providerCalls' = 0)
     /\ (/\ chatRequests' = chatRequests + 1
         /\ mreq'.user # NoUser
         /\ mres'.status # 429)
          => /\ slotTaken("chatMessageLimiter", mreq'.user)
             /\ mres'.status \in {400, 404} =>
                  (mpc' = "done" /\ chatProviderCalls' = 0 /\ chat' = chat)]_vars

\* C28 witness: the user's second check request was answered 400 and holds
\* the second slot
C28_Witness ==
  /\ cpc = "done"
  /\ cres.status = 400
  /\ creq.user = "u1"
  /\ providerCalls = 0
  /\ Len(userActions["symptomCheckLimiter"]["u1"]) = 2

\* the last message of the user in the session
latestUserMessage ==
  LET positions == { i \in DOMAIN chat.messages : chat.messages[i].role = "user" }
  IN chat.messages[CHOOSE i \in positions : \A j \in positions : j <= i]

\* C29: when an exchange has completed, aiInsights.riskAssessment.level is
\* high if the latest user message holds an emergency keyword, medium if it
\* holds a pain keyword and no emergency keyword, and low otherwise,
\* whatever the earlier messages and context.urgencyLevel are.
C29_InsightLevelFollowsLatest ==
  (mpc = "done" /\ mres.status = 200) =>
    chat.aiInsights.riskAssessment.level =
      (IF holdsWord(latestUserMessage.content, emergencyWords) THEN "high"
       ELSE IF holdsWord(latestUserMessage.content, painWords) THEN "medium"
       ELSE "low")

\* C29 witness: after an exchange about a severe chest pain and an exchange
\* that says hi, the insight level is back to low and context.urgencyLevel
\* is still high
C29_Witness ==
  /\ mpc = "done"
  /\ mres.status = 200
  /\ Len(chat.messages) = 4
  /\ chat.messages[1] = [role |-> "user", content |-> severeChestPain]
  /\ chat.messages[3] = [role |-> "user", content |-> hi]
  /\ chat.aiInsights.riskAssessment.level = "low"
  /\ chat.context.urgencyLevel = "high"

\* the last message of the session is the user message of the request in
\* flight
endsWithRequestMessage ==
  /\ chat.messages # <<>>
  /\ chat.messages[Len(chat.messages)] = [role |-> "user", content |-> mreq.content]

\* C30: the user message of an exchange is stored before the provider is
\* called; an exchange that completes has stored exactly one assistant
\* message directly after that user message; every assistant message of the
\* session directly follows a user message; an exchange that fails after the
\* user message was stored leaves that message last, without reply.
C30_ExchangeOrder ==
  /\ \A i \in DOMAIN chat.messages :
       chat.messages[i].role = "assistant" =>
         (i > 1 /\ chat.messages[i - 1].role = "user")
  /\ mpc \in {"answer", "reply"} => endsWithRequestMessage
  /\ mpc = "reply" => chatProviderCalls = 1
  /\ mpc = "answer" => chatProviderCalls = 0
  /\ (mpc = "done" /\ mres.status = 200) =>
       /\ Len(chat.messages) >= 2
       /\ chat.messages[Len(chat.messages)] =
            [role |-> "assistant", content |-> mres.response]
       /\ chat.messages[Len(chat.messages) - 1] =
            [role |-> "user", content |-> mreq.content]
  /\ (mpc = "done" /\ mres.status = 500) => endsWithRequestMessage

\* C30 witness: an exchange failed after its user message was stored, and
\* the next exchange completed: two user messages, then one assistant message
C30_Witness ==
  /\ mpc = "done"
  /\ mres.status = 200
  /\ Len(chat.messages) = 3
  /\ chat.messages[1].role = "user"
  /\ chat.messages[2].role = "user"
  /\ chat.messages[3].role = "assistant"

====
